---- MODULE Spec2Model ----
(***************************************************************************)
(* SVG Annotator: the sanitizer / key resolver (safeParseSvg), the click   *)
(* resolution and highlight lookup, and the session state machines of the  *)
(* two implementations, SvgAnnotator (part_000, "p0") and                  *)
(* InteractiveSvgAnnotator (part_001, "p1").                               *)
(*                                                                         *)
(* Markup.  A markup text is modelled by the element tree an XML parser    *)
(* builds from it: a sequence of element records in document order         *)
(* (preorder), each naming its parent by index (0 = no parent).  The empty *)
(* sequence is the empty string; the code reads a null markup and an empty *)
(* markup only through truthiness tests, so both are the empty sequence.   *)
(* Attribute values are sequences of one-character strings, so that        *)
(* escaping and selector parsing work on characters.                       *)
(***************************************************************************)
EXTENDS Integers, Sequences, FiniteSets, TLC

VARIABLES
    impl,               \* "p0": SvgAnnotator (part_000); "p1": InteractiveSvgAnnotator (part_001)
    cssEscapeAvailable, \* whether the platform has CSS.escape
    storageWorks,       \* whether localStorage.setItem succeeds
    storage,            \* the localStorage item under STORAGE_KEY
    phase,              \* startup: "start", "loaded", "persisted", then "ready"
    loaded,             \* p0: the item the load effect read, until the next render applies it
    svgText,            \* p0: svgText (raw upload); p1: state.svg (sanitized markup)
    parsedSvg,          \* p0: the memo safeParseSvg(svgText) of the last render
    annotations,        \* p0: annotations; p1: state.annotations
    selectedKey,
    editMode,
    labelDraft,         \* p0
    notesDraft,         \* p0
    commentDraft,       \* p0: commentDraft; p1: CommentsPanel's draft
    error,              \* p0: svgError; p1: Uploader's error
    pending,            \* the file texts FileReader is still reading
    dom,                \* the live SVG elements in the host container
    ticks,              \* the calls of uuid() / nowIso() made so far
    crashed,            \* an effect threw: React has unmounted the application
    last,               \* the handler that ran last, and its input
    sanStage,           \* position in the sanitizer pipeline: "input", "once", "twice"
    sanIn,              \* the text handed to safeParseSvg
    sanOut1,            \* safeParseSvg(sanIn)
    sanOut2,            \* safeParseSvg(sanOut1.svg)
    sanPkg,             \* the SVG markup buildHtmlPackage embeds for sanOut1.svg
    expStage,           \* position in the export pipeline: "input", "once", "twice"
    expIn,              \* the markup and the snapshot handed to buildAnnotatedSvg
    expOut1,            \* buildAnnotatedSvg(expIn.svg, expIn.annotations)
    expOut2,            \* buildAnnotatedSvg(expOut1, expIn.annotations)
    pkgStage,           \* position in the packaging pipeline: "input", "built"
    pkgIn,              \* the SVG text and the snapshot handed to buildHtmlPackage
    pkgOut,             \* the HTML text buildHtmlPackage returns
    exportFormat,       \* p0: exportFormat; p1: ExportGenerator's format
    exportText,         \* p0: exportText, the text the export panel shows
    exportFilename,     \* p0: exportFilename
    exportOpen,         \* p0: exportOpen
    exportStatus,       \* p0: exportStatus, the status line
    saves,              \* p0: the calls of exportData that wait for the save picker
    delivered,          \* what the last delivery attempt handed to the platform
    uploads,            \* the files chosen since the reader was last idle, in order
    viewer              \* the page of an exported HTML package, opened in a browser

envVars == <<impl, cssEscapeAvailable, storageWorks>>

appVars == <<storage, phase, loaded, svgText, parsedSvg, annotations, selectedKey, editMode,
             labelDraft, notesDraft, commentDraft, error, pending, dom, ticks, crashed, last>>

sanVars == <<sanStage, sanIn, sanOut1, sanOut2, sanPkg>>

expVars == <<expStage, expIn, expOut1, expOut2, pkgStage, pkgIn, pkgOut>>

panelVars == <<exportFormat, exportText, exportFilename, exportOpen, exportStatus, saves,
               delivered>>

vars == <<envVars, appVars, sanVars, expVars, panelVars, uploads, viewer>>

-----------------------------------------------------------------------------
(* Bounds *)

\* the number of elements below the root in an enumerated input document
MaxNodes == 3

-----------------------------------------------------------------------------
(* Attribute values and element records *)

\* getAttribute's result for an attribute that is not there
Null == <<"<null>">>

\* JavaScript truthiness of a getAttribute result (null and "" are falsy)
Truthy(v) == v # Null /\ v # <<>>

\* the CSS attribute-presence selector [name]
HasAttr(v) == v # Null

ShapeTags == {"path", "rect", "circle", "ellipse", "polygon", "polyline", "line", "text"}

RootStyleChunk == "max-width:100%;height:auto;"

SelectableStyleChunk == "; cursor:pointer; pointer-events:all; transition: filter .15s ease, outline .15s ease;"

\* text: the text content of a title, desc or metadata element
Elem(parent, tag, id, dak, style) ==
    [parent |-> parent, tag |-> tag, id |-> id, dak |-> dak, style |-> style,
     text |-> <<>>]

NullMarkup == <<>>

NoError == "none"

NoSvgError == "No <svg> root found in file."

-----------------------------------------------------------------------------
(* DOM helpers *)

RECURSIVE Ancestors(_, _)
Ancestors(doc, i) ==
    IF doc[i].parent = 0 THEN {}
    ELSE {doc[i].parent} \cup Ancestors(doc, doc[i].parent)

\* the elements a querySelector / querySelectorAll call on element r ranges over
Descendants(doc, r) == {j \in DOMAIN doc : r \in Ancestors(doc, j)}

\* first element of a set of indices in document order, 0 for none
First(S) == IF S = {} THEN 0 ELSE CHOOSE i \in S : \A j \in S : i <= j

\* DOMParser.parseFromString: the tree the text denotes
DOMParse(text) == text

\* doc.querySelector("svg")
QuerySvg(doc) == First({i \in DOMAIN doc : doc[i].tag = "svg"})

\* XMLSerializer.serializeToString(el): the markup of the subtree at r alone
XMLSerialize(doc, r) ==
    LET kept == {r} \cup Descendants(doc, r)
        rank(i) == Cardinality({k \in kept : k <= i})
        at(n) == CHOOSE i \in kept : rank(i) = n
    IN  [n \in 1..Cardinality(kept) |->
            [doc[at(n)] EXCEPT !.parent = IF at(n) = r THEN 0 ELSE rank(doc[at(n)].parent)]]

\* el.remove() for every element of R, a set closed under descendants
RemoveAll(doc, R) ==
    LET kept == DOMAIN doc \ R
        rank(i) == Cardinality({k \in kept : k <= i})
        at(n) == CHOOSE i \in kept : rank(i) = n
    IN  [n \in 1..Cardinality(kept) |->
            [doc[at(n)] EXCEPT !.parent = IF doc[at(n)].parent = 0 THEN 0
                                           ELSE rank(doc[at(n)].parent)]]

-----------------------------------------------------------------------------
(* stripScripts, getElementKey *)

stripScriptsFirstOnly(doc, svgEl) ==
    LET s == First({j \in Descendants(doc, svgEl) : doc[j].tag = "script"})
    IN  IF s = 0 THEN doc ELSE RemoveAll(doc, {s} \cup Descendants(doc, s))

stripScripts(doc, svgEl) ==
    LET scripts == {j \in Descendants(doc, svgEl) : doc[j].tag = "script"}
        gone == scripts \cup UNION {Descendants(doc, s) : s \in scripts}
    IN  RemoveAll(doc, gone)

getElementKey(el) ==
    IF Truthy(el.id) THEN el.id
    ELSE IF Truthy(el.dak) THEN el.dak
    ELSE Null

\* el.parentElement: 0 for none
parentElement(doc, el) == doc[el].parent

\* part_000 onClick: while (el && el !== svgEl && !getElementKey(el)) el = el.parentElement
RECURSIVE ClickWalk(_, _, _)
ClickWalk(doc, svgEl, el) ==
    IF el # 0 /\ el # svgEl /\ getElementKey(doc[el]) = Null
    THEN ClickWalk(doc, svgEl, parentElement(doc, el))
    ELSE el

\* part_000 onClick: const key = el && el !== svgEl ? getElementKey(el) : null
onClickKeyTargetOnly(doc, svgEl, target) ==
    IF target # svgEl THEN getElementKey(doc[target]) ELSE Null

onClickKey(doc, svgEl, target) ==
    LET el == ClickWalk(doc, svgEl, target)
    IN  IF el # 0 /\ el # svgEl THEN getElementKey(doc[el]) ELSE Null

\* part_001 SvgPane.findKey
RECURSIVE findKey(_, _, _)
findKey(doc, svg, el) ==
    IF el = 0 \/ el = svg THEN Null
    ELSE IF getElementKey(doc[el]) # Null THEN getElementKey(doc[el])
    ELSE findKey(doc, svg, parentElement(doc, el))

-----------------------------------------------------------------------------
(* safeParseSvg *)

RECURSIVE Digits(_)
Digits(n) == IF n < 10 THEN <<ToString(n)>> ELSE Digits(n \div 10) \o <<ToString(n % 10)>>

\* `auto_${autoIndex}`
AutoKey(n) == <<"a", "u", "t", "o", "_">> \o Digits(n)

\* svg.querySelector("g[id], path[id], ..., text[id]")
anyIdsGroupsOnly(doc, svg) ==
    First({j \in Descendants(doc, svg) : doc[j].tag = "g" /\ HasAttr(doc[j].id)}) # 0

anyIds(doc, svg) ==
    First({j \in Descendants(doc, svg) :
              doc[j].tag \in ({"g"} \cup ShapeTags) /\ HasAttr(doc[j].id)}) # 0

\* st = [doc, autoIndex]: the document and the closure's counter
assignAutoKey(st, el) ==
    IF Truthy(st.doc[el].id) THEN st
    ELSE IF Truthy(st.doc[el].dak) THEN st
    ELSE [doc |-> [st.doc EXCEPT ![el].dak = AutoKey(st.autoIndex)],
          autoIndex |-> st.autoIndex + 1]

\* groups.forEach(g => if (g.querySelector(shapes)) assignAutoKey(g)), from element i on
RECURSIVE GroupPass(_, _, _)
GroupPass(st, svg, i) ==
    IF i > Len(st.doc) THEN st
    ELSE IF /\ i \in Descendants(st.doc, svg)
            /\ st.doc[i].tag = "g"
            /\ \E j \in Descendants(st.doc, i) : st.doc[j].tag \in ShapeTags
         THEN GroupPass(assignAutoKey(st, i), svg, i + 1)
         ELSE GroupPass(st, svg, i + 1)

\* shapes.forEach(assignAutoKey), from element i on
RECURSIVE ShapePass(_, _, _)
ShapePass(st, svg, i) ==
    IF i > Len(st.doc) THEN st
    ELSE IF i \in Descendants(st.doc, svg) /\ st.doc[i].tag \in ShapeTags
         THEN ShapePass(assignAutoKey(st, i), svg, i + 1)
         ELSE ShapePass(st, svg, i + 1)

\* the fallback's guard: !svg.querySelector("[data-annot-key]")
ShapeFallbackAlways(doc, svg) == TRUE

ShapeFallback(doc, svg) ==
    First({j \in Descendants(doc, svg) : HasAttr(doc[j].dak)}) = 0

\* the body of if (!anyIds) { ... }
AutoAssign(doc, svg) ==
    LET afterGroups == GroupPass([doc |-> doc, autoIndex |-> 1], svg, 1)
    IN  IF ShapeFallback(afterGroups.doc, svg)
        THEN ShapePass(afterGroups, svg, 1).doc
        ELSE afterGroups.doc

\* svg.setAttribute("style", [svg.getAttribute("style") || "", "max-width..."].join(" "))
RootResponsive(doc, svg) ==
    [doc EXCEPT ![svg].style = Append(doc[svg].style, RootStyleChunk)]

\* svg.querySelectorAll("[id], [data-annot-key]")
Selectable(doc, svg) ==
    {j \in Descendants(doc, svg) : HasAttr(doc[j].id) \/ HasAttr(doc[j].dak)}

\* every selectable element gets `${existing}; cursor:pointer; ...`
MarkSelectable(doc, svg) ==
    [j \in DOMAIN doc |->
        IF j \in Selectable(doc, svg)
        THEN [doc[j] EXCEPT !.style = Append(doc[j].style, SelectableStyleChunk)]
        ELSE doc[j]]

safeParseSvg(text) ==
    LET doc == DOMParse(text)
        svg == QuerySvg(doc)
    IN  IF svg = 0 THEN [svg |-> NullMarkup, error |-> NoSvgError]
        ELSE LET stripped == stripScripts(doc, svg)
                 sized == RootResponsive(stripped, svg)
                 keyed == IF ~anyIds(sized, svg) THEN AutoAssign(sized, svg) ELSE sized
                 marked == MarkSelectable(keyed, svg)
             IN  [svg |-> XMLSerialize(marked, svg), error |-> NoError]

\* the cleaning step of buildHtmlPackage: the markup it embeds
HtmlPackageSvg(svgMarkup) ==
    LET doc == DOMParse(svgMarkup)
        svg == QuerySvg(doc)
    IN  IF svg = 0 THEN svgMarkup
        ELSE XMLSerialize(RootResponsive(stripScripts(doc, svg), svg), svg)

-----------------------------------------------------------------------------
(* Input documents *)

KeyA == <<"a">>
KeyB == <<"b">>
KeyColon == <<"a", ":", "b">>
KeyDigit == <<"1">>

\* the elements an enumerated document is built from: (tag, id, data-annot-key, style)
ElemKinds == {
    <<"g", Null, Null, <<>> >>,
    <<"g", KeyA, Null, <<>> >>,
    <<"g", KeyColon, Null, <<"fill:red">> >>,
    <<"g", Null, AutoKey(1), <<>> >>,
    <<"rect", Null, Null, <<>> >>,
    <<"rect", KeyA, Null, <<>> >>,
    <<"path", KeyDigit, Null, <<>> >>,
    <<"defs", Null, Null, <<>> >>,
    <<"defs", AutoKey(1), Null, <<>> >>,
    <<"script", Null, Null, <<>> >> }

RootKinds == {
    <<"svg", Null, Null, <<>> >>,
    <<"svg", KeyA, Null, <<"fill:red">> >> }

\* parent vectors of the k elements below the root: element i (document index
\* i + 1) hangs below the root (index 1), the element before it, or one of that
\* element's ancestors, so that index order is document order
RECURSIVE VecAncestors(_, _)
VecAncestors(p, j) ==
    IF j = 1 THEN {} ELSE {p[j - 1]} \cup VecAncestors(p, p[j - 1])

ParentVecs(k) ==
    {p \in [1..k -> 1..k] :
        /\ \A i \in 1..k : p[i] <= i
        /\ \A i \in 1..k : p[i] = i \/ p[i] \in VecAncestors(p, i)}

\* the document with root kind r, parent vector p and element kinds e
MkDoc(r, p, e) ==
    [n \in 1..(Len(p) + 1) |->
        IF n = 1 THEN Elem(0, r[1], r[2], r[3], r[4])
        ELSE Elem(p[n - 1], e[n - 1][1], e[n - 1][2], e[n - 1][3], e[n - 1][4])]

\* some document built from the given root and element kinds satisfies Q (a
\* script element holds text, not elements)
SomeSvgDoc(roots, kinds, Q(_)) ==
    \E k \in 0..MaxNodes : \E p \in ParentVecs(k) : \E e \in [1..k -> kinds] :
        \E r \in roots :
            /\ \A i \in 1..k : p[i] > 1 => e[p[i] - 1][1] # "script"
            /\ Q(MkDoc(r, p, e))

\* the element kinds of the documents that are loaded and clicked
ClickKinds == {
    <<"g", Null, Null, <<>> >>,
    <<"g", KeyA, Null, <<>> >>,
    <<"g", KeyColon, Null, <<"fill:red">> >>,
    <<"rect", Null, Null, <<>> >>,
    <<"rect", KeyA, Null, <<>> >>,
    <<"path", KeyDigit, Null, <<>> >>,
    <<"defs", AutoKey(1), Null, <<>> >> }

ClickRoots == { <<"svg", KeyB, Null, <<>> >> }

\* a well-formed XML text whose root is not an svg element and that holds a script
BadText == <<Elem(0, "html", Null, Null, <<>>), Elem(1, "script", Null, Null, <<>>)>>

EmptyText == <<>>

-----------------------------------------------------------------------------
(* Bounds of the session *)

\* the file reads that can be in flight at once
MaxPending == 2

\* the calls of uuid() / nowIso() in one behaviour
MaxTicks == 2

\* the calls of exportData that wait for the save picker at one time
MaxSaves == 1

-----------------------------------------------------------------------------
(* cssEscapeSafe and the selector lookups of the highlight *)

Letters ==
    {"a", "b", "c", "d", "e", "f", "g", "h", "i", "j", "k", "l", "m",
     "n", "o", "p", "q", "r", "s", "t", "u", "v", "w", "x", "y", "z",
     "A", "B", "C", "D", "E", "F", "G", "H", "I", "J", "K", "L", "M",
     "N", "O", "P", "Q", "R", "S", "T", "U", "V", "W", "X", "Y", "Z"}

DigitChars == {"0", "1", "2", "3", "4", "5", "6", "7", "8", "9"}

HexChars == DigitChars \cup {"a", "b", "c", "d", "e", "f", "A", "B", "C", "D", "E", "F"}

\* the characters a CSS name is written with unescaped
NameChars == Letters \cup DigitChars \cup {"_", "-"}

\* CSS.escape (CSSOM, "serialize an identifier"): a leading digit, and a digit
\* after a leading "-", become a hexadecimal escape closed by a space; other
\* characters outside the name characters get a backslash
CSSEscapeChar(value, i) ==
    LET c == value[i] IN
    IF c \in DigitChars /\ (i = 1 \/ (i = 2 /\ value[1] = "-"))
        THEN <<"\\", "3", c, " ">>
    ELSE IF c = "-" /\ i = 1 /\ Len(value) = 1 THEN <<"\\", c>>
    ELSE IF c \in NameChars THEN <<c>>
    ELSE <<"\\", c>>

RECURSIVE CSSEscapeFrom(_, _)
CSSEscapeFrom(value, i) ==
    IF i > Len(value) THEN <<>>
    ELSE CSSEscapeChar(value, i) \o CSSEscapeFrom(value, i + 1)

CSSEscape(value) == CSSEscapeFrom(value, 1)

\* value.replace(/[^a-zA-Z0-9_\-]/g, "\\$&")
RECURSIVE RegexEscapeFrom(_, _)
RegexEscapeFrom(value, i) ==
    IF i > Len(value) THEN <<>>
    ELSE (IF value[i] \in NameChars THEN <<value[i]>> ELSE <<"\\", value[i]>>)
         \o RegexEscapeFrom(value, i + 1)

cssEscapeSafe(value) ==
    IF cssEscapeAvailable THEN CSSEscape(value) ELSE RegexEscapeFrom(value, 1)

\* the character a hexadecimal escape stands for (the code points of the digits)
HexToChar(hex) ==
    IF Len(hex) = 2 /\ hex[1] = "3" /\ hex[2] \in DigitChars THEN hex[2] ELSE "?"

\* the hexadecimal digits at the front of chars from position i, at most six
RECURSIVE HexRun(_, _, _)
HexRun(chars, i, n) ==
    IF n = 6 \/ i > Len(chars) \/ chars[i] \notin HexChars THEN <<>>
    ELSE <<chars[i]>> \o HexRun(chars, i + 1, n + 1)

\* the selector parser reading the name of "#name": a name starts with a letter,
\* "_" or an escape (or "-" and then one of those), and runs over name
\* characters and escapes; anything left over makes the selector one the
\* engine rejects
RECURSIVE ConsumeName(_, _, _)
ConsumeName(chars, i, acc) ==
    IF i > Len(chars) THEN [valid |-> acc # <<>>, ident |-> acc]
    ELSE IF chars[i] = "\\" THEN
        IF i = Len(chars) THEN [valid |-> FALSE, ident |-> acc]
        ELSE IF chars[i + 1] \in HexChars THEN
            LET hex == HexRun(chars, i + 1, 0)
                j == i + 1 + Len(hex)
                k == IF j <= Len(chars) /\ chars[j] = " " THEN j + 1 ELSE j
            IN ConsumeName(chars, k, Append(acc, HexToChar(hex)))
        ELSE ConsumeName(chars, i + 2, Append(acc, chars[i + 1]))
    ELSE IF chars[i] \in NameChars THEN
        IF \/ acc = <<>> /\ chars[i] \in DigitChars
           \/ acc = <<"-">> /\ i = 2 /\ chars[i] \in DigitChars
           \/ acc = <<>> /\ chars[i] = "-" /\ i = Len(chars)
        THEN [valid |-> FALSE, ident |-> acc]
        ELSE ConsumeName(chars, i + 1, Append(acc, chars[i]))
    ELSE [valid |-> FALSE, ident |-> acc]

ParseIdSelector(escaped) == ConsumeName(escaped, 1, <<>>)

\* [data-annot-key="key"] is a selector as long as key does not end the string
AttrSelectorValid(key) == \A i \in DOMAIN key : key[i] \notin {"\"", "\\"}

\* svgEl.querySelector(`#${cssEscapeSafe(key)}`) ||
\* svgEl.querySelector(`[data-annot-key="${key}"]`): the element found (0 = null),
\* or the SyntaxError querySelector throws at a selector it cannot parse
lookupElement(doc, svgEl, key) ==
    LET sel == ParseIdSelector(cssEscapeSafe(key))
        byId == First({j \in Descendants(doc, svgEl) : doc[j].id = sel.ident})
        byKey == First({j \in Descendants(doc, svgEl) : doc[j].dak = key})
    IN  IF ~sel.valid THEN [threw |-> TRUE, el |-> 0]
        ELSE IF byId # 0 THEN [threw |-> FALSE, el |-> byId]
        ELSE IF ~AttrSelectorValid(key) THEN [threw |-> TRUE, el |-> 0]
        ELSE [threw |-> FALSE, el |-> byKey]

-----------------------------------------------------------------------------
(* Texts, the annotation store, the stored snapshot *)

\* String.prototype.trim on a sequence of characters
RECURSIVE TrimStart(_)
TrimStart(t) == IF t # <<>> /\ Head(t) = " " THEN TrimStart(Tail(t)) ELSE t

RECURSIVE TrimEnd(_)
TrimEnd(t) ==
    IF t # <<>> /\ t[Len(t)] = " " THEN TrimEnd(SubSeq(t, 1, Len(t) - 1)) ELSE t

Trim(t) == TrimEnd(TrimStart(t))

NoText == <<>>

\* what the user types into the label / title, the notes / description and the
\* comment box
LabelTexts == {NoText, <<"x">>}
NoteTexts == {NoText, <<"n">>}
CommentTexts == {NoText, <<" ">>, <<" ", "c">>}

EmptyStore == [k \in {} |-> NoText]

EmptyAnnotation == [title |-> NoText, description |-> NoText, comments |-> <<>>]

\* a store that keeps the written key only
PutAlone(store, key, annotation) == [k \in {key} |-> annotation]

\* { ...store, [key]: annotation }
Put(store, key, annotation) ==
    [k \in DOMAIN store \cup {key} |-> IF k = key THEN annotation ELSE store[k]]

\* store[key] || { title: "", description: "", comments: [] }
Current(store, key) == IF key \in DOMAIN store THEN store[key] ELSE EmptyAnnotation

\* a comment entry whose id is not fresh
NewCommentStaleId(text) == [id |-> 0, text |-> text, createdAt |-> ticks + 1]

\* { id: uuid(), text, createdAt: nowIso() }
NewComment(text) == [id |-> ticks + 1, text |-> text, createdAt |-> ticks + 1]

\* the localStorage item: absent, not JSON, or the JSON text of
\* { svgText | svg, annotations }, held as the value JSON.parse gives back
Item(kind, svg, store) == [kind |-> kind, svg |-> svg, annotations |-> store]

NoItem == Item("none", NullMarkup, EmptyStore)
NotJson == Item("garbage", NullMarkup, EmptyStore)

\* a persist effect that never writes
setItemNever(old, svg, store) == old

\* localStorage.setItem(STORAGE_KEY, JSON.stringify(...)) inside try / catch
setItem(old, svg, store) ==
    IF storageWorks THEN Item("snapshot", svg, store) ELSE old

-----------------------------------------------------------------------------
(* JSON texts.  A text is a sequence of tokens: the characters of the string *)
(* literals one by one, and the punctuation and the property names of the    *)
(* fixed schema as one token each.  White space is left out                  *)

\* nowIso(): the clock reading as text
nowIso == Digits(ticks)

\* JSON.stringify of a string: the characters between quotes, with quote and
\* backslash escaped
RECURSIVE JsonEscape(_)
JsonEscape(chars) ==
    IF chars = <<>> THEN <<>>
    ELSE (IF Head(chars) \in {"\"", "\\"} THEN <<"\\", Head(chars)>> ELSE <<Head(chars)>>)
            \o JsonEscape(Tail(chars))

JsonString(chars) == <<"\"">> \o JsonEscape(chars) \o <<"\"">>

\* the enumeration order of the keys of a store
RECURSIVE KeySeq(_)
KeySeq(keys) ==
    IF keys = {} THEN <<>>
    ELSE LET k == CHOOSE x \in keys : TRUE IN <<k>> \o KeySeq(keys \ {k})

JsonComment(c) ==
    <<"{", "\"id\"", ":">> \o JsonString(Digits(c.id))
        \o <<",", "\"text\"", ":">> \o JsonString(c.text)
        \o <<",", "\"createdAt\"", ":">> \o JsonString(Digits(c.createdAt)) \o <<"}">>

RECURSIVE JsonComments(_)
JsonComments(comments) ==
    IF comments = <<>> THEN <<>>
    ELSE JsonComment(Head(comments))
            \o (IF Len(comments) > 1 THEN <<",">> ELSE <<>>) \o JsonComments(Tail(comments))

JsonAnnotation(a) ==
    <<"{", "\"title\"", ":">> \o JsonString(a.title)
        \o <<",", "\"description\"", ":">> \o JsonString(a.description)
        \o <<",", "\"comments\"", ":", "[">> \o JsonComments(a.comments) \o <<"]", "}">>

RECURSIVE JsonEntries(_, _)
JsonEntries(store, keys) ==
    IF keys = <<>> THEN <<>>
    ELSE JsonString(Head(keys)) \o <<":">> \o JsonAnnotation(store[Head(keys)])
            \o (IF Len(keys) > 1 THEN <<",">> ELSE <<>>) \o JsonEntries(store, Tail(keys))

JsonStore(store) == <<"{">> \o JsonEntries(store, KeySeq(DOMAIN store)) \o <<"}">>

\* JSON.stringify({ exportedAt: nowIso(), annotations })
JsonSnapshot(store) ==
    <<"{", "\"exportedAt\"", ":">> \o JsonString(nowIso)
        \o <<",", "\"annotations\"", ":">> \o JsonStore(store) \o <<"}">>

\* JSON.parse: every step gives [ok, val, next], next the position after the value
JsonFail == [ok |-> FALSE, val |-> <<>>, next |-> 0]

JsonAt(t, i, token) == i <= Len(t) /\ t[i] = token

\* the character a \uXXXX escape denotes
UnicodeChar(hex) == IF hex \in {<<"0", "0", "3", "c">>, <<"0", "0", "3", "C">>} THEN "<" ELSE "?"

\* the characters of a string literal from position i, after the opening
\* quote: the plain characters up to the next quote or backslash, then the
\* end of the literal or an escape
RECURSIVE ScanString(_, _, _)
ScanString(t, i, acc) ==
    LET special(k) == t[k] \in {"\"", "\\"}
        found == \E k \in i..Len(t) : special(k)
        p == CHOOSE k \in i..Len(t) : special(k) /\ \A n \in i..(k - 1) : ~special(n)
        plain == acc \o SubSeq(t, i, p - 1)
    IN  IF ~found THEN JsonFail
        ELSE IF t[p] = "\"" THEN [ok |-> TRUE, val |-> plain, next |-> p + 1]
        ELSE IF p + 1 > Len(t) THEN JsonFail
        ELSE IF t[p + 1] = "u" THEN
            IF p + 5 > Len(t) THEN JsonFail
            ELSE ScanString(t, p + 6, Append(plain, UnicodeChar(SubSeq(t, p + 2, p + 5))))
        ELSE IF t[p + 1] \in {"\"", "\\", "/"} THEN ScanString(t, p + 2, Append(plain, t[p + 1]))
        ELSE JsonFail

ParseString(t, i) == IF JsonAt(t, i, "\"") THEN ScanString(t, i + 1, <<>>) ELSE JsonFail

\* the number a run of digits denotes
RECURSIVE Number(_)
Number(digits) ==
    IF digits = <<>> THEN 0
    ELSE 10 * Number(SubSeq(digits, 1, Len(digits) - 1))
            + (CHOOSE n \in 0..9 : ToString(n) = digits[Len(digits)])

\* "name": string, from position i
ParseField(t, i, name) ==
    IF JsonAt(t, i, name) /\ JsonAt(t, i + 1, ":") THEN ParseString(t, i + 2) ELSE JsonFail

ParseComment(t, i) ==
    IF ~JsonAt(t, i, "{") THEN JsonFail
    ELSE LET id == ParseField(t, i + 1, "\"id\"") IN
         IF ~id.ok \/ ~JsonAt(t, id.next, ",") THEN JsonFail
    ELSE LET text == ParseField(t, id.next + 1, "\"text\"") IN
         IF ~text.ok \/ ~JsonAt(t, text.next, ",") THEN JsonFail
    ELSE LET at == ParseField(t, text.next + 1, "\"createdAt\"") IN
         IF ~at.ok \/ ~JsonAt(t, at.next, "}") THEN JsonFail
    ELSE [ok |-> TRUE,
          val |-> [id |-> Number(id.val), text |-> text.val, createdAt |-> Number(at.val)],
          next |-> at.next + 1]

\* the entries of an array of comments from position i, after "[" or ","
RECURSIVE ParseComments(_, _, _)
ParseComments(t, i, acc) ==
    IF JsonAt(t, i, "]") /\ acc = <<>> THEN [ok |-> TRUE, val |-> acc, next |-> i + 1]
    ELSE LET c == ParseComment(t, i) IN
         IF ~c.ok THEN JsonFail
         ELSE IF JsonAt(t, c.next, ",") THEN ParseComments(t, c.next + 1, Append(acc, c.val))
         ELSE IF JsonAt(t, c.next, "]")
              THEN [ok |-> TRUE, val |-> Append(acc, c.val), next |-> c.next + 1]
         ELSE JsonFail

ParseAnnotation(t, i) ==
    IF ~JsonAt(t, i, "{") THEN JsonFail
    ELSE LET title == ParseField(t, i + 1, "\"title\"") IN
         IF ~title.ok \/ ~JsonAt(t, title.next, ",") THEN JsonFail
    ELSE LET description == ParseField(t, title.next + 1, "\"description\"") IN
         IF ~description.ok \/ ~JsonAt(t, description.next, ",") THEN JsonFail
    ELSE IF ~(/\ JsonAt(t, description.next + 1, "\"comments\"")
              /\ JsonAt(t, description.next + 2, ":")
              /\ JsonAt(t, description.next + 3, "[")) THEN JsonFail
    ELSE LET comments == ParseComments(t, description.next + 4, <<>>) IN
         IF ~comments.ok \/ ~JsonAt(t, comments.next, "}") THEN JsonFail
    ELSE [ok |-> TRUE,
          val |-> [title |-> title.val, description |-> description.val,
                   comments |-> comments.val],
          next |-> comments.next + 1]

\* the entries of a store from position i, after "{" or ","
RECURSIVE ParseEntries(_, _, _)
ParseEntries(t, i, acc) ==
    IF JsonAt(t, i, "}") /\ DOMAIN acc = {} THEN [ok |-> TRUE, val |-> acc, next |-> i + 1]
    ELSE LET key == ParseString(t, i) IN
         IF ~key.ok \/ ~JsonAt(t, key.next, ":") THEN JsonFail
    ELSE LET a == ParseAnnotation(t, key.next + 1) IN
         IF ~a.ok THEN JsonFail
         ELSE IF JsonAt(t, a.next, ",")
              THEN ParseEntries(t, a.next + 1, Put(acc, key.val, a.val))
         ELSE IF JsonAt(t, a.next, "}")
              THEN [ok |-> TRUE, val |-> Put(acc, key.val, a.val), next |-> a.next + 1]
         ELSE JsonFail

ParseStore(t, i) == IF JsonAt(t, i, "{") THEN ParseEntries(t, i + 1, EmptyStore) ELSE JsonFail

\* JSON.parse(raw).annotations for the text of JsonSnapshot
ParseSnapshot(t) ==
    IF ~JsonAt(t, 1, "{") THEN JsonFail
    ELSE LET at == ParseField(t, 2, "\"exportedAt\"") IN
         IF ~(/\ at.ok /\ JsonAt(t, at.next, ",") /\ JsonAt(t, at.next + 1, "\"annotations\"")
              /\ JsonAt(t, at.next + 2, ":")) THEN JsonFail
    ELSE LET store == ParseStore(t, at.next + 3) IN
         IF store.ok /\ JsonAt(t, store.next, "}") /\ store.next = Len(t) THEN store
         ELSE JsonFail

-----------------------------------------------------------------------------
(* buildAnnotatedSvg *)

\* the id of the metadata element, as one token
MetadataId == <<"svg-annotator-metadata">>

\* a created element with its text content
TextElem(parent, tag, id, text) ==
    [Elem(parent, tag, id, Null, <<>>) EXCEPT !.text = text]

\* parent.insertBefore(el, parent.firstChild): el becomes the element after parent
InsertFirst(doc, parent, el) ==
    [n \in 1..(Len(doc) + 1) |->
        IF n <= parent THEN doc[n]
        ELSE IF n = parent + 1 THEN [el EXCEPT !.parent = parent]
        ELSE [doc[n - 1] EXCEPT !.parent = IF @ > parent THEN @ + 1 ELSE @]]

\* svg.querySelector("metadata#svg-annotator-metadata"); if (old) old.remove()
RemoveOldMetadata(doc, svg) ==
    LET old == First({j \in Descendants(doc, svg) :
                        doc[j].tag = "metadata" /\ doc[j].id = MetadataId})
    IN  IF old = 0 THEN doc ELSE RemoveAll(doc, {old} \cup Descendants(doc, old))

\* ensureChild(el, tag): the first child with the tag, else a new first child
ensureChild(doc, el, tag) ==
    LET found == First({c \in DOMAIN doc : doc[c].parent = el /\ doc[c].tag = tag})
    IN  IF found # 0 THEN [doc |-> doc, el |-> found, created |-> FALSE]
        ELSE [doc |-> InsertFirst(doc, el, TextElem(el, tag, Null, <<>>)), el |-> el + 1,
              created |-> TRUE]

\* doc.getElementById(key)
getElementById(doc, key) ==
    IF key = <<>> THEN 0 ELSE First({n \in DOMAIN doc : doc[n].id = key})

\* doc.getElementById(key) || svg.querySelector(`[data-annot-key="${key}"]`):
\* the selector is one the engine rejects when the key holds a quote or a backslash
exportTarget(doc, svg, key) ==
    IF getElementById(doc, key) # 0 THEN [threw |-> FALSE, el |-> getElementById(doc, key)]
    ELSE IF ~AttrSelectorValid(key) THEN [threw |-> TRUE, el |-> 0]
    ELSE [threw |-> FALSE, el |-> First({j \in Descendants(doc, svg) : doc[j].dak = key})]

\* lines.join("\n"), pieces.join(" (bullet) ")
RECURSIVE JoinWith(_, _)
JoinWith(pieces, sep) ==
    IF pieces = <<>> THEN <<>>
    ELSE Head(pieces) \o (IF Len(pieces) > 1 THEN <<sep>> ELSE <<>>)
            \o JoinWith(Tail(pieces), sep)

label(key, a) == IF Trim(a.title) # NoText THEN Trim(a.title) ELSE key

commentTexts(a) ==
    SelectSeq([n \in DOMAIN a.comments |-> a.comments[n].text], LAMBDA t : t # NoText)

\* the text of the title child: label, notes and the first two comments
tooltip(key, a) ==
    JoinWith(<<label(key, a)>>
                \o (IF Trim(a.description) # NoText
                    THEN << <<"Notes: ">> \o Trim(a.description) >> ELSE <<>>)
                \o (IF commentTexts(a) # <<>>
                    THEN << <<"Comments: ">>
                            \o JoinWith(SubSeq(commentTexts(a), 1,
                                               IF Len(commentTexts(a)) < 2
                                               THEN Len(commentTexts(a)) ELSE 2), " (bullet) ") >>
                    ELSE <<>>),
             "\n")

\* the text of the desc child: label, notes and up to ten comments
full(key, a) ==
    JoinWith(<< <<"Label: ">> \o label(key, a) >>
                \o << IF Trim(a.description) # NoText
                      THEN <<"Notes: ">> \o Trim(a.description) ELSE <<"Notes: (none)">> >>
                \o (IF commentTexts(a) # <<>>
                    THEN << <<"Comments:">> >>
                            \o [n \in 1..(IF Len(commentTexts(a)) < 10
                                          THEN Len(commentTexts(a)) ELSE 10) |->
                                    <<"- ">> \o commentTexts(a)[n]]
                    ELSE << <<"Comments: (none)">> >>),
             "\n")

\* the body of Object.entries(annotations).forEach for one key; the title and
\* desc elements of the documents considered hold text only
annotateElement(doc, el, key, a) ==
    LET title == ensureChild(doc, el, "title")
        desc == ensureChild(title.doc, el, "desc")
        titleEl == IF desc.created THEN title.el + 1 ELSE title.el
    IN  [desc.doc EXCEPT ![titleEl].text = tooltip(key, a), ![desc.el].text = full(key, a)]

\* Object.entries(annotations).forEach(...): [threw, doc]
RECURSIVE annotateAll(_, _, _, _)
annotateAll(doc, svg, store, keys) ==
    IF keys = <<>> THEN [threw |-> FALSE, doc |-> doc]
    ELSE LET target == exportTarget(doc, svg, Head(keys)) IN
         IF target.threw THEN [threw |-> TRUE, doc |-> doc]
         ELSE IF target.el = 0 THEN annotateAll(doc, svg, store, Tail(keys))
         ELSE annotateAll(annotateElement(doc, target.el, Head(keys), store[Head(keys)]),
                          svg, store, Tail(keys))

\* buildAnnotatedSvg(svgMarkup, annotations): the markup it returns; any
\* exception makes it return its input
buildAnnotatedSvg(svgMarkup, store) ==
    LET doc == DOMParse(svgMarkup)
        svg == QuerySvg(doc)
    IN  IF svg = 0 THEN svgMarkup
        ELSE LET cleared == RemoveOldMetadata(stripScripts(doc, svg), svg)
                 meta == TextElem(svg, "metadata", MetadataId, JsonSnapshot(store))
                 done == annotateAll(InsertFirst(cleared, svg, meta), svg, store,
                                     KeySeq(DOMAIN store))
             IN  IF done.threw THEN svgMarkup ELSE XMLSerialize(done.doc, svg)

-----------------------------------------------------------------------------
(* buildHtmlPackage: the text it returns.  A text is a sequence of tokens:  *)
(* single characters, the word "script" in its letter cases, and the parts  *)
(* of the template as one token each                                        *)

ScriptWords == {"script", "SCRIPT", "Script"}

\* cleanSvg.replace(/<\/(script)/g, "<\\/$1"), without the i flag
escapeClosingScriptLowerCase(text) ==
    LET hit(i) == /\ i + 2 <= Len(text)
                  /\ text[i] = "<" /\ text[i + 1] = "/" /\ text[i + 2] = "script"
        F[i \in 1..(Len(text) + 1)] ==
            IF i > Len(text) THEN <<>>
            ELSE IF hit(i) THEN <<"<", "\\", "/", text[i + 2]>> \o F[i + 3]
            ELSE <<text[i]>> \o F[i + 1]
    IN  F[1]

\* cleanSvg.replace(/<\/(script)/gi, "<\\/$1")
escapeClosingScript(text) ==
    LET hit(i) == /\ i + 2 <= Len(text)
                  /\ text[i] = "<" /\ text[i + 1] = "/" /\ text[i + 2] \in ScriptWords
        F[i \in 1..(Len(text) + 1)] ==
            IF i > Len(text) THEN <<>>
            ELSE IF hit(i) THEN <<"<", "\\", "/", text[i + 2]>> \o F[i + 3]
            ELSE <<text[i]>> \o F[i + 1]
    IN  F[1]

\* JSON.stringify(cleanSvg)
svgJsString(cleanSvg) == JsonString(cleanSvg)

\* text.replace(/</g, "\\u003c")
RECURSIVE EscapeLessThan(_)
EscapeLessThan(text) ==
    IF text = <<>> THEN <<>>
    ELSE (IF Head(text) = "<" THEN <<"\\", "u", "0", "0", "3", "c">> ELSE <<Head(text)>>)
            \o EscapeLessThan(Tail(text))

\* JSON.stringify({ exportedAt: nowIso(), annotations }).replace(/</g, "\\u003c")
safeJson(store) == EscapeLessThan(JsonSnapshot(store))

\* the source text of the template literal, as written in the file, around
\* the two embedded values.  Quotes, backslashes and line ends that matter to
\* the reading of the script are tokens of their own; the code between them is
\* one token per stretch, with its own string literals closed inside it
TemplateBeforeJson ==
    <<"<!doctype html> ... <div class=hint> ... &lt;g id=", "\\", "\"", "...", "\\", "\"",
      "&gt; per icon before exporting.</div> ... ",
      "<script type=application/json id=annotationsJson>">>

TemplateBeforeSvg ==
    <<"<", "/", "script", ">", "\n", "<script>", "\n",
      "(function(){ ... var annotations = (parsed && parsed.annotations) || {};", "\n",
      "countBadge.textContent = ", "'", "Annotated: ", "'",
      " + Object.keys(annotations).length;", "\n",
      "svgHost.innerHTML = ">>

TemplateAfterSvg ==
    <<";", "\n", "var svg = ... function cssEscape(s){ try {", "\n",
      "return (window.CSS && CSS.escape) ? CSS.escape(s) : s.replace(/[^a-zA-Z0-9_",
      "\\", "-", "]/g, function(m){ return ", "'", "\\", "\\", "'", " + m; });", "\n",
      "} catch(e){ return s; } } ... ", "\n",
      "svg.addEventListener(", "'", "click", "'", ", function(e){ ... }, false); })();", "\n",
      "<", "/", "script", ">", "</div></body></html>">>

\* the value of a template literal: a backslash and the character after it
\* stand for that character
RECURSIVE TemplateValue(_)
TemplateValue(source) ==
    IF source = <<>> THEN <<>>
    ELSE IF Head(source) = "\\" /\ Len(source) > 1
         THEN <<source[2]>> \o TemplateValue(Tail(Tail(source)))
    ELSE <<Head(source)>> \o TemplateValue(Tail(source))

\* the template literal buildHtmlPackage returns, for the cleaned SVG text
HtmlPackageText(cleanSvg, store) ==
    TemplateValue(TemplateBeforeJson) \o safeJson(store) \o TemplateValue(TemplateBeforeSvg)
        \o svgJsString(escapeClosingScript(cleanSvg)) \o TemplateValue(TemplateAfterSvg)

\* the positions of a text where a closing script tag starts, in any letter case
ClosingScripts(text) ==
    {i \in DOMAIN text :
        /\ i + 2 <= Len(text)
        /\ text[i] = "<" /\ text[i + 1] = "/" /\ text[i + 2] \in ScriptWords}

\* what the browser takes as the content of the script element opened by the
\* token open: the text up to the next closing script tag
ScriptContent(html, open) ==
    LET start == First({i \in DOMAIN html : html[i] = open})
        end == First({i \in ClosingScripts(html) : i > start})
    IN  IF start = 0 \/ end = 0 THEN <<>> ELSE SubSeq(html, start + 1, end - 1)

\* the JavaScript lexer on a script, from position i; quote is the quote of
\* the string literal it is in, "" outside of one.  A string literal ends at
\* its quote and may not hold a line end; a backslash takes the next character
\* with it
RECURSIVE LexesFrom(_, _, _)
LexesFrom(script, i, quote) ==
    IF i > Len(script) THEN quote = ""
    ELSE IF quote = "" THEN
        LexesFrom(script, i + 1, IF script[i] \in {"'", "\""} THEN script[i] ELSE "")
    ELSE IF script[i] = "\n" THEN FALSE
    ELSE IF script[i] = "\\" THEN i + 1 <= Len(script) /\ LexesFrom(script, i + 2, quote)
    ELSE LexesFrom(script, i + 1, IF script[i] = quote THEN "" ELSE quote)

-----------------------------------------------------------------------------
(* The HTML package: the text buildHtmlPackage returns for every enumerated  *)
(* cleaned SVG text and snapshot                                             *)

\* the length of an enumerated text
MaxText == 4

\* the characters of the SVG text and of the annotation texts that matter to
\* the embedding
PackageChars == {"<", "/", "script", "SCRIPT", "\\", "\"", "x"}

PackageTexts(n) == UNION {[1..k -> PackageChars] : k \in 0..n}

\* a snapshot with the text as key, title, description or comment
PackageStore(place, text) ==
    IF place = "key" THEN Put(EmptyStore, text, EmptyAnnotation)
    ELSE IF place = "title" THEN Put(EmptyStore, KeyA, [EmptyAnnotation EXCEPT !.title = text])
    ELSE IF place = "description"
         THEN Put(EmptyStore, KeyA, [EmptyAnnotation EXCEPT !.description = text])
    ELSE Put(EmptyStore, KeyA,
             [EmptyAnnotation EXCEPT
                !.comments = <<[id |-> 1, text |-> text, createdAt |-> 1]>>])

-----------------------------------------------------------------------------
(* The live DOM and the highlight *)

HighlightChunk0 ==
    "; filter: drop-shadow(0 0 6px rgba(59,130,246,.7)); outline: 2px solid rgba(59,130,246,.9); outline-offset: 2px;"
HighlightChunk1 ==
    "; filter: drop-shadow(0 0 6px rgba(59,130,246,.8)); outline: 2px solid rgba(59,130,246,.9); outline-offset: 2px;"

\* innerHTML = markup: the elements of the markup, with no data-annot-orig-style
\* (orig) and no data-selected / data-annot-highlight (hl) attribute yet
ToDom(markup) ==
    [n \in DOMAIN markup |->
        [parent |-> markup[n].parent, tag |-> markup[n].tag, id |-> markup[n].id,
         dak |-> markup[n].dak, style |-> markup[n].style, orig |-> Null, hl |-> FALSE]]

\* attr || ""
OrEmpty(v) == IF Truthy(v) THEN v ELSE <<>>

NoThrow(d) == [dom |-> d, threw |-> FALSE]
Throw(d) == [dom |-> d, threw |-> TRUE]

\* p0: "Cache original styles once"
CacheOrigStyles(d, svgEl) ==
    [n \in DOMAIN d |->
        IF n \in Selectable(d, svgEl) /\ ~Truthy(d[n].orig)
        THEN [d[n] EXCEPT !.orig = OrEmpty(d[n].style)]
        ELSE d[n]]

clearHighlightKeepsStyle(d, svgEl) ==
    [n \in DOMAIN d |->
        IF n \in Selectable(d, svgEl) THEN [d[n] EXCEPT !.hl = FALSE] ELSE d[n]]

\* p0: clearHighlight
clearHighlight(d, svgEl) ==
    [n \in DOMAIN d |->
        IF n \in Selectable(d, svgEl)
        THEN [d[n] EXCEPT !.style = OrEmpty(d[n].orig), !.hl = FALSE]
        ELSE d[n]]

\* p0: highlight(key)
highlight(d, svgEl, key) ==
    LET cleared == clearHighlight(d, svgEl)
        found == lookupElement(cleared, svgEl, key)
    IN  IF key = Null THEN NoThrow(cleared)
        ELSE IF found.threw THEN Throw(cleared)
        ELSE IF found.el = 0 THEN NoThrow(cleared)
        ELSE NoThrow([cleared EXCEPT
                ![found.el].hl = TRUE,
                ![found.el].style = Append(OrEmpty(cleared[found.el].orig), HighlightChunk0)])

\* p0: the effect "Wire SVG click selection + highlight" up to highlight(selectedKey)
WireEffect(d, key) ==
    LET svgEl == QuerySvg(d) IN
    IF svgEl = 0 THEN NoThrow(d)
    ELSE highlight(CacheOrigStyles(d, svgEl), svgEl, key)

\* p1: the second effect of SvgPane
HighlightEffect(d, key) ==
    LET svg == QuerySvg(d)
        cleared == [n \in DOMAIN d |->
            IF n \in Descendants(d, svg) /\ d[n].hl
            THEN [d[n] EXCEPT !.hl = FALSE,
                              !.style = IF Truthy(d[n].orig) THEN d[n].orig ELSE d[n].style]
            ELSE d[n]]
        found == lookupElement(cleared, svg, key)
        el == found.el
        orig == IF Truthy(cleared[el].orig) THEN cleared[el].orig
                ELSE OrEmpty(cleared[el].style)
    IN  IF svg = 0 THEN NoThrow(d)
        ELSE IF key = Null THEN NoThrow(cleared)
        ELSE IF found.threw THEN Throw(cleared)
        ELSE IF el = 0 THEN NoThrow(cleared)
        ELSE NoThrow([cleared EXCEPT
                ![el].orig = orig,
                ![el].style = Append(OrEmpty(orig), HighlightChunk1),
                ![el].hl = TRUE])


-----------------------------------------------------------------------------
(* The page of the HTML package: the script buildHtmlPackage embeds, run by   *)
(* the browser that opens the exported file                                    *)

HighlightChunkPackage ==
    "; filter: drop-shadow(0 0 6px rgba(59,130,246,.75)); outline: 2px solid rgba(59,130,246,.95); outline-offset: 2px;"

\* no package is open
NoViewer == [open |-> FALSE, svg |-> NullMarkup, dom |-> <<>>, selectedEl |-> 0, key |-> Null]

\* buildHtmlPackage, the try block on the element tree: the scripts stripped,
\* the responsive style joined to the root style, the root serialized
cleanSvgOf(svgMarkup) ==
    LET svg == QuerySvg(svgMarkup)
        stripped == stripScripts(svgMarkup, svg)
        root == QuerySvg(stripped)
        styled == [stripped EXCEPT
                    ![root].style = Append(OrEmpty(stripped[root].style),
                                           "max-width:100%;height:auto;")]
    IN  IF svg = 0 THEN svgMarkup ELSE XMLSerialize(styled, root)

\* the browser runs the script element only if it can parse it. The statements
\* of the script are those of the template for every SVG text and store
EmittedScriptRuns ==
    LexesFrom(ScriptContent(HtmlPackageText(EmptyText, EmptyStore), "<script>"), 1, "")

\* the script up to "var selectedEl = null": svgHost.innerHTML is set by the
\* script itself, so a script that does not run leaves the host empty
scriptStart(svgMarkup, runs) ==
    [open |-> TRUE, svg |-> svgMarkup,
     dom |-> IF runs THEN ToDom(cleanSvgOf(svgMarkup)) ELSE <<>>,
     selectedEl |-> 0, key |-> Null]

\* the script: getKey(el)
getKey(d, svg, el) ==
    IF el = 0 \/ el = svg THEN Null
    ELSE IF Truthy(d[el].id) THEN d[el].id
    ELSE IF Truthy(d[el].dak) THEN d[el].dak
    ELSE Null

\* the script: findKey(el), up the parentNode chain as far as the svg element
RECURSIVE findKeyInPackage(_, _, _)
findKeyInPackage(d, svg, cur) ==
    IF cur = 0 \/ cur = svg THEN Null
    ELSE IF getKey(d, svg, cur) # Null THEN getKey(d, svg, cur)
    ELSE findKeyInPackage(d, svg, d[cur].parent)

\* the script: clearHighlight(), which restores selectedEl alone
clearHighlightInPackage(v) ==
    [v EXCEPT !.dom = IF v.selectedEl = 0 THEN v.dom
                      ELSE [v.dom EXCEPT ![v.selectedEl].style = OrEmpty(v.dom[v.selectedEl].orig)],
              !.selectedEl = 0]

\* the script: highlightByKey(key); threw: querySelector rejected the selector
highlightByKey(v, key) ==
    LET cleared == clearHighlightInPackage(v)
        found == lookupElement(cleared.dom, QuerySvg(cleared.dom), key)
        el == found.el
        orig == IF Truthy(cleared.dom[el].orig) THEN cleared.dom[el].orig
                ELSE OrEmpty(cleared.dom[el].style)
    IN  IF found.threw THEN [v |-> cleared, threw |-> TRUE]
        ELSE IF el = 0 THEN [v |-> cleared, threw |-> FALSE]
        ELSE [v |-> [cleared EXCEPT
                        !.selectedEl = el,
                        !.dom[el].orig = orig,
                        !.dom[el].style = Append(OrEmpty(orig), HighlightChunkPackage)],
              threw |-> FALSE]

\* the script: the click listener of the svg element, for a click on target:
\* findKey, highlightByKey, setDetails (key is what selBadge shows). The script
\* has no other listener: nothing returns the page to the empty state
clickInPackage(v, target) ==
    LET svg == QuerySvg(v.dom)
        key == findKeyInPackage(v.dom, svg, target)
        lit == highlightByKey(v, key)
    IN  IF ~v.open \/ svg = 0 \/ target \notin DOMAIN v.dom THEN v
        ELSE IF key = Null THEN v
        ELSE IF lit.threw THEN lit.v
        ELSE [lit.v EXCEPT !.key = key]

\* the elements of the page that carry the highlight style
LitInPackage(v) ==
    {n \in DOMAIN v.dom : \E i \in DOMAIN v.dom[n].style :
        v.dom[n].style[i] = HighlightChunkPackage}

-----------------------------------------------------------------------------
(* The files of a session and the snapshot a previous session left *)

\* <svg><g id="a"><rect/></g></svg>
FileIds ==
    <<Elem(0, "svg", Null, Null, <<>>), Elem(1, "g", KeyA, Null, <<>>),
      Elem(2, "rect", Null, Null, <<>>)>>

\* <svg><g><rect/></g></svg>
FileAuto ==
    <<Elem(0, "svg", Null, Null, <<>>), Elem(1, "g", Null, Null, <<>>),
      Elem(2, "rect", Null, Null, <<>>)>>

Files == {FileIds, FileAuto, BadText}

SavedAnnotations == Put(EmptyStore, KeyA, [EmptyAnnotation EXCEPT !.title = <<"x">>])

\* p0 stores the uploaded text, p1 the sanitized markup
SavedItem ==
    Item("snapshot", IF impl = "p0" THEN FileIds ELSE safeParseSvg(FileIds).svg,
         SavedAnnotations)

\* <svg><g id="a"/><rect id="b"/></svg>
EditFile ==
    <<Elem(0, "svg", Null, Null, <<>>), Elem(1, "g", KeyA, Null, <<>>),
      Elem(1, "rect", KeyB, Null, <<>>)>>

\* the store of a previous session on EditFile: a title and one comment for
\* "a", nothing for "b"
EditAnnotations ==
    Put(EmptyStore, KeyA,
        [title |-> <<"x">>, description |-> NoText,
         comments |-> <<[id |-> 0, text |-> <<"c">>, createdAt |-> 0]>>])

EditItem ==
    Item("snapshot", IF impl = "p0" THEN EditFile ELSE safeParseSvg(EditFile).svg,
         EditAnnotations)

-----------------------------------------------------------------------------
(* Rendering: what a commit and its effects do to the session *)

Last(op, target, file) ==
    [op |-> op, target |-> target, file |-> file, hadSel |-> selectedKey # Null]

\* p0: the parsedSvg memo, recomputed when svgText changes
ParseMemo(text) ==
    IF text = svgText THEN parsedSvg
    ELSE IF text = EmptyText THEN [svg |-> NullMarkup, error |-> NoError]
    ELSE safeParseSvg(text)

\* p0: the commit of a render with the new svgText, annotations and selectedKey,
\* and the effects after it: svgError, wiring + highlight, draft sync, persist.
\* annSet: setAnnotations was called; draft: the comment draft the handler left;
\* domNow: the live DOM as the handler left it
Commit0(text, store, annSet, key, draft, domNow) ==
    LET fresh == parsedSvg'.svg # parsedSvg.svg
        d == IF fresh THEN ToDom(parsedSvg'.svg) ELSE domNow
        wired == IF fresh \/ key # selectedKey THEN WireEffect(d, key) ELSE NoThrow(d)
        sync == key # selectedKey \/ annSet
    IN  /\ svgText' = text
        /\ parsedSvg' = ParseMemo(text)
        /\ annotations' = store
        /\ selectedKey' = key
        /\ error' = parsedSvg'.error
        /\ crashed' = wired.threw
        /\ dom' = IF wired.threw THEN <<>> ELSE wired.dom
        /\ commentDraft' = IF sync THEN NoText ELSE draft
        /\ labelDraft' = IF ~sync THEN labelDraft
                         ELSE IF key = Null THEN NoText ELSE Current(store, key).title
        /\ notesDraft' = IF ~sync THEN notesDraft
                         ELSE IF key = Null THEN NoText ELSE Current(store, key).description
        /\ storage' = IF text # svgText \/ annSet THEN setItem(storage, text, store)
                      ELSE storage

\* p1: the commit of a render with the new state and selectedKey, and the
\* effects after it: persist, SvgPane's innerHTML and highlight.
\* stateSet: setState was called; draft: CommentsPanel's draft as the handler left it
Commit1(svg, store, stateSet, key, draft) ==
    LET fresh == svg # svgText
        d == IF svg = NullMarkup THEN <<>> ELSE IF fresh THEN ToDom(svg) ELSE dom
        lit == IF svg # NullMarkup /\ (fresh \/ key # selectedKey)
               THEN HighlightEffect(d, key) ELSE NoThrow(d)
        panel == svgText # NullMarkup /\ selectedKey # Null
                    /\ svg # NullMarkup /\ key # Null
    IN  /\ svgText' = svg
        /\ annotations' = store
        /\ selectedKey' = key
        /\ crashed' = lit.threw
        /\ dom' = IF lit.threw THEN <<>> ELSE lit.dom
        /\ commentDraft' = IF panel THEN draft ELSE NoText
        /\ storage' = IF stateSet THEN setItem(storage, svg, store) ELSE storage
        /\ UNCHANGED <<parsedSvg, labelDraft, notesDraft>>

Ready(i) == impl = i /\ phase = "ready" /\ ~crashed

-----------------------------------------------------------------------------
(* Startup *)

\* p0, "Load saved state": the effect reads the item; its setSvgText and
\* setAnnotations take effect with the next render
LoadEffect0 ==
    /\ impl = "p0" /\ phase = "start"
    /\ loaded' = IF storage.kind = "snapshot" THEN storage ELSE NoItem
    /\ phase' = "loaded"
    /\ last' = Last("load", 0, EmptyText)
    /\ UNCHANGED <<storage, svgText, parsedSvg, annotations, selectedKey, editMode, labelDraft,
                   notesDraft, commentDraft, error, pending, dom, ticks, crashed>>
    /\ UNCHANGED <<envVars, sanVars, expVars, panelVars, uploads, viewer>>

\* p0, "Persist state", after the first render: writes the initial empty state
PersistEffect0 ==
    /\ impl = "p0" /\ phase = "loaded"
    /\ storage' = setItem(storage, svgText, annotations)
    /\ phase' = "persisted"
    /\ last' = Last("persist", 0, EmptyText)
    /\ UNCHANGED <<loaded, svgText, parsedSvg, annotations, selectedKey, editMode, labelDraft,
                   notesDraft, commentDraft, error, pending, dom, ticks, crashed>>
    /\ UNCHANGED <<envVars, sanVars, expVars, panelVars, uploads, viewer>>

\* p0: the render that applies what the load effect set, and its effects
Rerender0 ==
    /\ impl = "p0" /\ phase = "persisted"
    /\ Commit0(IF Truthy(loaded.svg) THEN loaded.svg ELSE svgText,
               IF loaded.kind = "snapshot" THEN loaded.annotations ELSE annotations,
               loaded.kind = "snapshot", selectedKey, commentDraft, dom)
    /\ loaded' = NoItem
    /\ phase' = "ready"
    /\ last' = Last("render", 0, EmptyText)
    /\ UNCHANGED <<editMode, pending, ticks>>
    /\ UNCHANGED <<envVars, sanVars, expVars, panelVars, uploads, viewer>>

\* p1, useLocalAnnotations: the initial state read from the item, then the
\* effects of the first render
Mount1 ==
    /\ impl = "p1" /\ phase = "start"
    /\ Commit1(IF storage.kind = "snapshot" THEN storage.svg ELSE NullMarkup,
               IF storage.kind = "snapshot" THEN storage.annotations ELSE EmptyStore,
               TRUE, Null, NoText)
    /\ phase' = "ready"
    /\ last' = Last("render", 0, EmptyText)
    /\ UNCHANGED <<loaded, editMode, error, pending, ticks>>
    /\ UNCHANGED <<envVars, sanVars, expVars, panelVars, uploads, viewer>>

-----------------------------------------------------------------------------
(* p0: the handlers of SvgAnnotator *)

\* reader.readAsText(file) of onUploadSvg and handleFile: every call makes its
\* own FileReader, so the reads of two files run side by side; uploads keeps the
\* files with a running read in the order they were chosen, and after them the
\* file chosen last when its read has ended before theirs
readAsText(file) == Append(SelectSeq(uploads, LAMBDA f : f # file /\ f \in pending), file)

\* the load event of the reader of file
readEnded(file) ==
    IF pending \ {file} = {} THEN <<>>
    ELSE SelectSeq(uploads, LAMBDA f : f \in pending \ {file} \/ f = uploads[Len(uploads)])

\* onUploadSvg(file): the read starts
onUploadSvg(file) ==
    /\ Ready("p0")
    /\ Cardinality(pending) < MaxPending
    /\ pending' = pending \cup {file}
    /\ uploads' = readAsText(file)
    /\ last' = Last("choose", 0, EmptyText)
    /\ UNCHANGED <<storage, phase, loaded, svgText, parsedSvg, annotations, selectedKey, editMode,
                   labelDraft, notesDraft, commentDraft, error, dom, ticks, crashed>>
    /\ UNCHANGED <<envVars, sanVars, expVars, panelVars, viewer>>

onloadKeepsSelection(text) == [svgText |-> text, selectedKey |-> selectedKey]

\* reader.onload of onUploadSvg: setSelectedKey(null); setSvgText(text)
onload(text) == [svgText |-> text, selectedKey |-> Null]

ReadDone0(file) ==
    /\ Ready("p0")
    /\ file \in pending
    /\ pending' = pending \ {file}
    /\ Commit0(onload(file).svgText, annotations, FALSE, onload(file).selectedKey,
               commentDraft, dom)
    /\ uploads' = readEnded(file)
    /\ last' = Last("read", 0, file)
    /\ UNCHANGED <<phase, loaded, editMode, ticks>>
    /\ UNCHANGED <<envVars, sanVars, expVars, panelVars, viewer>>

\* onClick of the wiring effect, for a click on element target of the live SVG;
\* the page of a package that is open beside it gets the same click
onClick(target) ==
    /\ Ready("p0")
    /\ QuerySvg(dom) # 0
    /\ target \in DOMAIN dom
    /\ LET svgEl == QuerySvg(dom)
           key == onClickKey(dom, svgEl, target)
       IN  IF key = Null
           THEN UNCHANGED <<storage, svgText, parsedSvg, annotations, selectedKey, labelDraft,
                            notesDraft, commentDraft, error, dom, crashed>>
           ELSE Commit0(svgText, annotations, FALSE, key, commentDraft,
                        highlight(dom, svgEl, key).dom)
    /\ last' = Last("click", target, EmptyText)
    /\ UNCHANGED <<phase, loaded, editMode, pending, ticks>>
    /\ viewer' = clickInPackage(viewer, target)
    /\ UNCHANGED <<envVars, sanVars, expVars, panelVars, uploads>>

setEditMode0(on) ==
    /\ Ready("p0")
    /\ editMode' = on
    /\ last' = Last("edit", 0, EmptyText)
    /\ UNCHANGED <<storage, phase, loaded, svgText, parsedSvg, annotations, selectedKey, labelDraft,
                   notesDraft, commentDraft, error, pending, dom, ticks, crashed>>
    /\ UNCHANGED <<envVars, sanVars, expVars, panelVars, uploads, viewer>>

\* the inputs of the details panel, rendered for a selection in edit mode
setLabelDraft(text) ==
    /\ Ready("p0") /\ selectedKey # Null /\ editMode
    /\ labelDraft' = text
    /\ last' = Last("edit", 0, EmptyText)
    /\ UNCHANGED <<storage, phase, loaded, svgText, parsedSvg, annotations, selectedKey, editMode,
                   notesDraft, commentDraft, error, pending, dom, ticks, crashed>>
    /\ UNCHANGED <<envVars, sanVars, expVars, panelVars, uploads, viewer>>

setNotesDraft(text) ==
    /\ Ready("p0") /\ selectedKey # Null /\ editMode
    /\ notesDraft' = text
    /\ last' = Last("edit", 0, EmptyText)
    /\ UNCHANGED <<storage, phase, loaded, svgText, parsedSvg, annotations, selectedKey, editMode,
                   labelDraft, commentDraft, error, pending, dom, ticks, crashed>>
    /\ UNCHANGED <<envVars, sanVars, expVars, panelVars, uploads, viewer>>

setCommentDraft(text) ==
    /\ Ready("p0") /\ selectedKey # Null /\ editMode
    /\ commentDraft' = text
    /\ last' = Last("edit", 0, EmptyText)
    /\ UNCHANGED <<storage, phase, loaded, svgText, parsedSvg, annotations, selectedKey, editMode,
                   labelDraft, notesDraft, error, pending, dom, ticks, crashed>>
    /\ UNCHANGED <<envVars, sanVars, expVars, panelVars, uploads, viewer>>

selectedTitle == IF selectedKey = Null THEN NoText ELSE Current(annotations, selectedKey).title
selectedNotes ==
    IF selectedKey = Null THEN NoText ELSE Current(annotations, selectedKey).description

\* upsertSelected({ title: labelDraft, description: notesDraft }) on store prev
upsertSelected(prev) ==
    Put(prev, selectedKey,
        [Current(prev, selectedKey) EXCEPT !.title = labelDraft, !.description = notesDraft])

\* addComment(text) on store prev: nothing is set when the trimmed text is empty
addComment(prev, text) ==
    IF Trim(text) = NoText THEN prev
    ELSE Put(prev, selectedKey,
             [Current(prev, selectedKey) EXCEPT
                 !.comments = Append(@, NewComment(Trim(text)))])

\* the "Add notes" button
saveNotesOnly ==
    /\ Ready("p0") /\ selectedKey # Null /\ editMode
    /\ ~(labelDraft = selectedTitle /\ notesDraft = selectedNotes)
    /\ Commit0(svgText, upsertSelected(annotations), TRUE, selectedKey, commentDraft, dom)
    /\ last' = Last("saveNotes", 0, EmptyText)
    /\ UNCHANGED <<phase, loaded, editMode, pending, ticks>>
    /\ UNCHANGED <<envVars, sanVars, expVars, panelVars, uploads, viewer>>

\* the "Save comment" button of CommentsPanel
saveCommentOnly ==
    /\ Ready("p0") /\ selectedKey # Null /\ editMode
    /\ Trim(commentDraft) # NoText => ticks < MaxTicks
    /\ IF Trim(commentDraft) = NoText
       THEN UNCHANGED <<storage, svgText, parsedSvg, annotations, selectedKey, labelDraft,
                        notesDraft, commentDraft, error, dom, crashed, ticks>>
       ELSE /\ Commit0(svgText, addComment(annotations, commentDraft), TRUE, selectedKey,
                       NoText, dom)
            /\ ticks' = ticks + 1
    /\ last' = Last("saveComment", 0, EmptyText)
    /\ UNCHANGED <<phase, loaded, editMode, pending>>
    /\ UNCHANGED <<envVars, sanVars, expVars, panelVars, uploads, viewer>>

\* the "Save all" button
saveAll ==
    /\ Ready("p0") /\ selectedKey # Null /\ editMode
    /\ ~(Trim(commentDraft) = NoText /\ labelDraft = selectedTitle
            /\ notesDraft = selectedNotes)
    /\ Trim(commentDraft) # NoText => ticks < MaxTicks
    /\ Commit0(svgText,
               IF Trim(commentDraft) # NoText
               THEN addComment(upsertSelected(annotations), commentDraft)
               ELSE upsertSelected(annotations),
               TRUE, selectedKey, IF Trim(commentDraft) # NoText THEN NoText ELSE commentDraft,
               dom)
    /\ ticks' = IF Trim(commentDraft) # NoText THEN ticks + 1 ELSE ticks
    /\ last' = Last("saveAll", 0, EmptyText)
    /\ UNCHANGED <<phase, loaded, editMode, pending>>
    /\ UNCHANGED <<envVars, sanVars, expVars, panelVars, uploads, viewer>>

\* clearAll: setAnnotations({}); setSelectedKey(null)
clearAll ==
    /\ Ready("p0")
    /\ Commit0(svgText, EmptyStore, TRUE, Null, commentDraft, dom)
    /\ last' = Last("reset", 0, EmptyText)
    /\ UNCHANGED <<phase, loaded, editMode, pending, ticks>>
    /\ UNCHANGED <<envVars, sanVars, expVars, panelVars, uploads, viewer>>

-----------------------------------------------------------------------------
(* p1: the handlers of InteractiveSvgAnnotator *)

\* Uploader.handleFile(file): the read starts; the Uploader is rendered while
\* there is no document
handleFile(file) ==
    /\ Ready("p1")
    /\ svgText = NullMarkup
    /\ Cardinality(pending) < MaxPending
    /\ pending' = pending \cup {file}
    /\ uploads' = readAsText(file)
    /\ last' = Last("choose", 0, EmptyText)
    /\ UNCHANGED <<storage, phase, loaded, svgText, parsedSvg, annotations, selectedKey, editMode,
                   labelDraft, notesDraft, commentDraft, error, dom, ticks, crashed>>
    /\ UNCHANGED <<envVars, sanVars, expVars, panelVars, viewer>>

\* handleUpload(svgMarkup): setState({ svg: svgMarkup, annotations: {} });
\* setSelectedKey(null)
handleUpload(svgMarkup) ==
    [svg |-> svgMarkup, annotations |-> EmptyStore, selectedKey |-> Null]

\* reader.onload of handleFile
ReadDone1(file) ==
    /\ Ready("p1")
    /\ file \in pending
    /\ pending' = pending \ {file}
    /\ LET parsed == safeParseSvg(file)
           next == handleUpload(parsed.svg)
       IN  IF parsed.error # NoError \/ parsed.svg = NullMarkup
           THEN /\ error' = IF svgText # NullMarkup THEN error
                            ELSE IF parsed.error # NoError THEN parsed.error
                            ELSE "Invalid SVG file."
                /\ UNCHANGED <<storage, svgText, parsedSvg, annotations, selectedKey, labelDraft,
                               notesDraft, commentDraft, dom, crashed>>
           ELSE /\ error' = NoError
                /\ Commit1(next.svg, next.annotations, TRUE, next.selectedKey, commentDraft)
    /\ uploads' = readEnded(file)
    /\ last' = Last("read", 0, file)
    /\ UNCHANGED <<phase, loaded, editMode, ticks>>
    /\ UNCHANGED <<envVars, sanVars, expVars, panelVars, viewer>>

\* handleClick of SvgPane, for a click on element target of the live SVG;
\* the page of a package that is open beside it gets the same click
handleClick(target) ==
    /\ Ready("p1")
    /\ QuerySvg(dom) # 0
    /\ target \in DOMAIN dom
    /\ LET key == findKey(dom, QuerySvg(dom), target)
       IN  IF key = Null
           THEN UNCHANGED <<storage, svgText, parsedSvg, annotations, selectedKey, labelDraft,
                            notesDraft, commentDraft, dom, crashed>>
           ELSE Commit1(svgText, annotations, FALSE, key, commentDraft)
    /\ last' = Last("click", target, EmptyText)
    /\ UNCHANGED <<phase, loaded, editMode, error, pending, ticks>>
    /\ viewer' = clickInPackage(viewer, target)
    /\ UNCHANGED <<envVars, sanVars, expVars, panelVars, uploads>>

\* the "Deselect" pill of SelectionInfo: setSelectedKey(null)
Deselect ==
    /\ Ready("p1")
    /\ svgText # NullMarkup
    /\ Commit1(svgText, annotations, FALSE, Null, commentDraft)
    /\ last' = Last("deselect", 0, EmptyText)
    /\ UNCHANGED <<phase, loaded, editMode, error, pending, ticks>>
    /\ UNCHANGED <<envVars, sanVars, expVars, panelVars, uploads, viewer>>

setEditMode1(on) ==
    /\ Ready("p1")
    /\ svgText # NullMarkup
    /\ editMode' = on
    /\ last' = Last("edit", 0, EmptyText)
    /\ UNCHANGED <<storage, phase, loaded, svgText, parsedSvg, annotations, selectedKey, labelDraft,
                   notesDraft, commentDraft, error, pending, dom, ticks, crashed>>
    /\ UNCHANGED <<envVars, sanVars, expVars, panelVars, uploads, viewer>>

\* DetailsPane: data, and update(patch) for each patch the pane makes
data == Current(annotations, selectedKey)

Editable1InViewMode == Ready("p1") /\ svgText # NullMarkup /\ selectedKey # Null

Editable1 == Ready("p1") /\ svgText # NullMarkup /\ selectedKey # Null /\ editMode

updateTitle(text) ==
    /\ Editable1
    /\ Commit1(svgText, Put(annotations, selectedKey, [data EXCEPT !.title = text]),
               TRUE, selectedKey, commentDraft)
    /\ last' = Last("updateTitle", 0, EmptyText)
    /\ UNCHANGED <<phase, loaded, editMode, error, pending, ticks>>
    /\ UNCHANGED <<envVars, sanVars, expVars, panelVars, uploads, viewer>>

updateDescription(text) ==
    /\ Editable1
    /\ Commit1(svgText, Put(annotations, selectedKey, [data EXCEPT !.description = text]),
               TRUE, selectedKey, commentDraft)
    /\ last' = Last("updateDescription", 0, EmptyText)
    /\ UNCHANGED <<phase, loaded, editMode, error, pending, ticks>>
    /\ UNCHANGED <<envVars, sanVars, expVars, panelVars, uploads, viewer>>

\* DetailsPane's onAdd(text): update({ comments: [...data.comments, new comment] })
onAdd(text) ==
    Put(annotations, selectedKey, [data EXCEPT !.comments = Append(@, NewComment(text))])

\* CommentsPanel: the draft textarea
setDraft(text) ==
    /\ Editable1
    /\ commentDraft' = text
    /\ last' = Last("edit", 0, EmptyText)
    /\ UNCHANGED <<storage, phase, loaded, svgText, parsedSvg, annotations, selectedKey, editMode,
                   labelDraft, notesDraft, error, pending, dom, ticks, crashed>>
    /\ UNCHANGED <<envVars, sanVars, expVars, panelVars, uploads, viewer>>

\* CommentsPanel.submit, with DetailsPane's onAdd
submit ==
    /\ Editable1
    /\ Trim(commentDraft) # NoText => ticks < MaxTicks
    /\ IF Trim(commentDraft) = NoText
       THEN UNCHANGED <<storage, svgText, parsedSvg, annotations, selectedKey, labelDraft,
                        notesDraft, commentDraft, dom, crashed, ticks>>
       ELSE /\ Commit1(svgText, onAdd(Trim(commentDraft)), TRUE, selectedKey, NoText)
            /\ ticks' = ticks + 1
    /\ last' = Last("saveComment", 0, EmptyText)
    /\ UNCHANGED <<phase, loaded, editMode, error, pending>>
    /\ UNCHANGED <<envVars, sanVars, expVars, panelVars, uploads, viewer>>

\* DetailsPane's onDelete(id)
onDelete(id) ==
    /\ Editable1
    /\ Commit1(svgText,
               Put(annotations, selectedKey,
                   [data EXCEPT !.comments = SelectSeq(@, LAMBDA c : c.id # id)]),
               TRUE, selectedKey, commentDraft)
    /\ last' = Last("deleteComment", id, EmptyText)
    /\ UNCHANGED <<phase, loaded, editMode, error, pending, ticks>>
    /\ UNCHANGED <<envVars, sanVars, expVars, panelVars, uploads, viewer>>

\* removeSvg: setState({ svg: null, annotations: {} }); setSelectedKey(null);
\* ExportGenerator goes with the document, and its format with it
removeSvg ==
    /\ Ready("p1")
    /\ svgText # NullMarkup
    /\ Commit1(NullMarkup, EmptyStore, TRUE, Null, commentDraft)
    /\ error' = NoError
    /\ last' = Last("reset", 0, EmptyText)
    /\ exportFormat' = "html"
    /\ UNCHANGED <<exportText, exportFilename, exportOpen, exportStatus, saves, delivered>>
    /\ UNCHANGED <<phase, loaded, editMode, pending, ticks>>
    /\ UNCHANGED <<envVars, sanVars, expVars, uploads, viewer>>


-----------------------------------------------------------------------------
(* The export panel *)

\* the variables of the session apart from the record of the last step
sessionVars == <<storage, phase, loaded, svgText, parsedSvg, annotations, selectedKey, editMode,
                 labelDraft, notesDraft, commentDraft, error, pending, dom, ticks, crashed>>

ExportFormats == {"html", "json", "svg"}

\* an export text, kept as the format of the generator that wrote it and the
\* two values the generator read; SpecExport, SpecPackage and JsonExport hold
\* the texts themselves
ExportOf(format, svgMarkup, store) ==
    [format |-> format, svg |-> svgMarkup, annotations |-> store]

\* useState(""): no export text yet
NoExport == ExportOf("none", NullMarkup, EmptyStore)

NoDelivery == [via |-> "none", text |-> NoExport, filename |-> "", mime |-> ""]

\* p0, computeExport: parsedSvg.svg || svgText || ""; p1, ExportGenerator: state.svg
baseSvgMarkup ==
    IF impl = "p0" /\ parsedSvg.svg # NullMarkup THEN parsedSvg.svg ELSE svgText

\* p0, computeExport: text, filename, mime and ext of the selected format
computeExport ==
    IF exportFormat = "html"
    THEN [text |-> ExportOf("html", baseSvgMarkup, annotations),
          filename |-> "svg-notes.html", mime |-> "text/html", ext |-> "html"]
    ELSE IF exportFormat = "svg"
    THEN [text |-> ExportOf("svg", baseSvgMarkup, annotations),
          filename |-> "diagram-annotated.svg", mime |-> "image/svg+xml", ext |-> "svg"]
    ELSE [text |-> ExportOf("json", baseSvgMarkup, annotations),
          filename |-> "svg-annotations.json", mime |-> "application/json", ext |-> "json"]

\* p0, downloadViaAnchor(filename, text, mime): a Blob of the text with the type
\* mime behind an anchor that is clicked; false when any of it throws
downloadViaAnchor(filename, text, mime, ok) ==
    [ok |-> ok,
     delivered |-> [via |-> IF ok THEN "anchor" ELSE "blocked", text |-> text,
                    filename |-> filename, mime |-> mime]]

\* p0, saveViaFilePicker(filename, text, mime, ext) once the picker has answered:
\* true after the write, false when the picker or the write throws
saveViaFilePicker(filename, text, mime, saved) ==
    [ok |-> saved,
     delivered |-> [via |-> IF saved THEN "picker" ELSE "blocked", text |-> text,
                    filename |-> filename, mime |-> mime]]

\* p0, the select of the toolbar: the svg option is disabled without a document
setExportFormat(format) ==
    /\ Ready("p0")
    /\ format = "svg" => svgText # NullMarkup
    /\ exportFormat' = format
    /\ last' = Last("format", 0, EmptyText)
    /\ UNCHANGED <<exportText, exportFilename, exportOpen, exportStatus, saves, delivered>>
    /\ UNCHANGED <<sessionVars, envVars, sanVars, expVars, uploads, viewer>>

continuationRereadsStore(s) == [s EXCEPT !.text.annotations = annotations]

\* p0, exportData after its await: text, filename, mime and ext are the constants
\* of the call, whatever was rendered since
continuation(s) == s

\* p0, exportData after saveViaFilePicker has returned saved: the status of the
\* picker, or the anchor download and its status
afterPicker(s, saved, anchorOk) ==
    LET c == continuation(s)
        picked == saveViaFilePicker(c.filename, c.text, c.mime, saved)
        anchor == downloadViaAnchor(c.filename, c.text, c.mime, anchorOk)
    IN  IF picked.ok
        THEN [status |-> "Saved via file picker.", delivered |-> picked.delivered]
        ELSE [status |-> IF anchor.ok THEN "Download attempted (may be blocked in preview)."
                         ELSE "Download blocked - use Copy.",
              delivered |-> anchor.delivered]

\* p0, exportData: the panel opens on the computed text; without
\* showSaveFilePicker the await returns at once and the anchor download follows,
\* with it the call waits for the picker. The catch of exportData is not
\* modelled: the generators catch their own exceptions
exportData(picker, anchorOk) ==
    /\ Ready("p0")
    /\ LET e == computeExport
           done == afterPicker(e, FALSE, anchorOk)
       IN  /\ exportFilename' = e.filename
           /\ exportText' = e.text
           /\ exportOpen' = TRUE
           /\ IF picker
              THEN /\ Len(saves) < MaxSaves
                   /\ saves' = Append(saves, e)
                   /\ exportStatus' = ""
                   /\ UNCHANGED delivered
              ELSE /\ exportStatus' = done.status
                   /\ delivered' = done.delivered
                   /\ UNCHANGED saves
    /\ last' = Last("export", 0, EmptyText)
    /\ UNCHANGED exportFormat
    /\ UNCHANGED <<sessionVars, envVars, sanVars, expVars, uploads, viewer>>

\* the waiting calls without call i
Resumed(calls, i) == SubSeq(calls, 1, i - 1) \o SubSeq(calls, i + 1, Len(calls))

\* p0, exportData resumed when the picker of the waiting call i answers
SaveDone(i, saved, anchorOk) ==
    /\ Ready("p0")
    /\ i \in DOMAIN saves
    /\ saves' = Resumed(saves, i)
    /\ exportStatus' = afterPicker(saves[i], saved, anchorOk).status
    /\ delivered' = afterPicker(saves[i], saved, anchorOk).delivered
    /\ last' = Last("saveDone", 0, EmptyText)
    /\ UNCHANGED <<exportFormat, exportText, exportFilename, exportOpen>>
    /\ UNCHANGED <<sessionVars, envVars, sanVars, expVars, uploads, viewer>>

ClipboardOutcomes == {"written", "absent", "rejected"}

ExecOutcomes == {"copied", "refused", "throws"}

\* p0, copyToClipboard(text): navigator.clipboard.writeText, and when it is
\* absent or rejects, the textarea of the panel selected and execCommand("copy")
copyToClipboard(text, clip, exec) ==
    LET via == IF clip = "written" THEN "clipboard"
               ELSE IF exec = "copied" THEN "execCommand" ELSE "blocked"
    IN  [ok |-> via # "blocked",
         delivered |-> [via |-> via, text |-> text, filename |-> "", mime |-> ""]]

\* p0, handleCopyExport, the Copy button of the open panel
handleCopyExport(clip, exec) ==
    /\ Ready("p0")
    /\ exportOpen
    /\ exportText # NoExport
    /\ LET copied == copyToClipboard(exportText, clip, exec)
       IN  /\ exportStatus' = IF copied.ok THEN "Copied to clipboard."
                              ELSE "Copy blocked - Ctrl/Cmd+A then Ctrl/Cmd+C."
           /\ delivered' = copied.delivered
    /\ last' = Last("copy", 0, EmptyText)
    /\ UNCHANGED <<exportFormat, exportText, exportFilename, exportOpen, saves>>
    /\ UNCHANGED <<sessionVars, envVars, sanVars, expVars, uploads, viewer>>

\* p0, handleDownloadExport, the Download button of the open panel: the mime is
\* that of the format selected now, the text and the filename those of the export
handleDownloadExport(ok) ==
    /\ Ready("p0")
    /\ exportOpen
    /\ exportText # NoExport
    /\ LET mime == IF exportFormat = "html" THEN "text/html"
                   ELSE IF exportFormat = "svg" THEN "image/svg+xml"
                   ELSE "application/json"
           anchor == downloadViaAnchor(exportFilename, exportText, mime, ok)
       IN  /\ exportStatus' = IF anchor.ok THEN "Download attempted."
                              ELSE "Download blocked - use Copy."
           /\ delivered' = anchor.delivered
    /\ last' = Last("download", 0, EmptyText)
    /\ UNCHANGED <<exportFormat, exportText, exportFilename, exportOpen, saves>>
    /\ UNCHANGED <<sessionVars, envVars, sanVars, expVars, uploads, viewer>>

\* window.open: a tab opens, or the pop-up is blocked and null comes back, or
\* the call throws
OpenOutcomes == {"opened", "null", "throws"}

\* p0, handlePreviewExport, the Preview button of the open panel, enabled while
\* the selected format is html: the export text opens as text/html
handlePreviewExport(open) ==
    /\ Ready("p0")
    /\ exportOpen
    /\ exportText # NoExport
    /\ exportFormat = "html"
    /\ exportStatus' = IF open = "throws" THEN "Preview blocked - use Download or Copy."
                       ELSE "Opened preview in a new tab."
    /\ delivered' = [via |-> IF open = "opened" THEN "window" ELSE "blocked",
                     text |-> exportText, filename |-> "", mime |-> "text/html"]
    /\ last' = Last("preview", 0, EmptyText)
    /\ UNCHANGED <<exportFormat, exportText, exportFilename, exportOpen, saves>>
    /\ UNCHANGED <<sessionVars, envVars, sanVars, expVars, uploads, viewer>>

\* p1, ExportGenerator: the resultText memo over format, svgMarkup and
\* annotations; the json text holds exportedAt and the annotations only
resultText ==
    ExportOf(exportFormat, IF exportFormat = "json" THEN NullMarkup ELSE svgText, annotations)

\* p1: ExportGenerator is rendered while there is a document
Mounted1 == Ready("p1") /\ svgText # NullMarkup

\* p1, the select of ExportPanel
setFormat(format) ==
    /\ Mounted1
    /\ exportFormat' = format
    /\ last' = Last("format", 0, EmptyText)
    /\ UNCHANGED <<exportText, exportFilename, exportOpen, exportStatus, saves, delivered>>
    /\ UNCHANGED <<sessionVars, envVars, sanVars, expVars, uploads, viewer>>

\* p1, copyText(text): navigator.clipboard.writeText inside try, the promise
\* dropped, nothing after it
copyText(text, clip) ==
    [via |-> IF clip = "written" THEN "clipboard" ELSE "blocked", text |-> text,
     filename |-> "", mime |-> ""]

\* p1, onCopy
onCopy(clip) ==
    /\ Mounted1
    /\ delivered' = copyText(resultText, clip)
    /\ last' = Last("copy", 0, EmptyText)
    /\ UNCHANGED <<exportFormat, exportText, exportFilename, exportOpen, exportStatus, saves>>
    /\ UNCHANGED <<sessionVars, envVars, sanVars, expVars, uploads, viewer>>

\* p1, downloadFile(filename, content): a Blob of the type text/plain behind a
\* clicked anchor, outside any try
downloadFile(filename, content, ok) ==
    [via |-> IF ok THEN "anchor" ELSE "blocked", text |-> content, filename |-> filename,
     mime |-> "text/plain"]

\* p1, onDownload(fmt)
onDownload(ok) ==
    /\ Mounted1
    /\ LET ext == IF exportFormat = "html" THEN "html"
                  ELSE IF exportFormat = "svg" THEN "svg" ELSE "json"
       IN  delivered' = downloadFile("svg-annotations." \o ext, resultText, ok)
    /\ last' = Last("download", 0, EmptyText)
    /\ UNCHANGED <<exportFormat, exportText, exportFilename, exportOpen, exportStatus, saves>>
    /\ UNCHANGED <<sessionVars, envVars, sanVars, expVars, uploads, viewer>>

\* p1, onPreview(fmt): a Blob of the type text/html for html and text/plain
\* otherwise, opened in a new tab
onPreview(open) ==
    /\ Mounted1
    /\ delivered' = [via |-> IF open = "opened" THEN "window" ELSE "blocked",
                     text |-> resultText, filename |-> "",
                     mime |-> IF exportFormat = "html" THEN "text/html" ELSE "text/plain"]
    /\ last' = Last("preview", 0, EmptyText)
    /\ UNCHANGED <<exportFormat, exportText, exportFilename, exportOpen, exportStatus, saves>>
    /\ UNCHANGED <<sessionVars, envVars, sanVars, expVars, uploads, viewer>>

-----------------------------------------------------------------------------
(* The session: both implementations from startup, over the files of Files *)

NoResult == [svg |-> NullMarkup, error |-> NoError]

SanIdle ==
    /\ sanStage = "idle"
    /\ sanIn = EmptyText
    /\ sanOut1 = NoResult
    /\ sanOut2 = NoResult
    /\ sanPkg = NullMarkup

\* computeExport has not run, nothing was delivered, no read is running, no
\* package is open
PanelIdle ==
    /\ exportFormat = "html"
    /\ exportText = NoExport
    /\ exportFilename = "svg-notes.html"
    /\ exportOpen = FALSE
    /\ exportStatus = ""
    /\ saves = <<>>
    /\ delivered = NoDelivery
    /\ uploads = <<>>
    /\ viewer = NoViewer

ExpIdle ==
    /\ expStage = "idle"
    /\ expIn = [svg |-> NullMarkup, annotations |-> EmptyStore]
    /\ expOut1 = NullMarkup
    /\ expOut2 = NullMarkup
    /\ pkgStage = "idle"
    /\ pkgIn = [svg |-> <<>>, annotations |-> EmptyStore]
    /\ pkgOut = <<>>

\* the state of either component after its first render
FirstRender ==
    /\ phase = "start"
    /\ loaded = NoItem
    /\ svgText = NullMarkup
    /\ parsedSvg = NoResult
    /\ annotations = EmptyStore
    /\ selectedKey = Null
    /\ editMode = TRUE
    /\ labelDraft = NoText
    /\ notesDraft = NoText
    /\ commentDraft = NoText
    /\ error = NoError
    /\ pending = {}
    /\ dom = <<>>
    /\ ticks = 0
    /\ crashed = FALSE
    /\ last = [op |-> "init", target |-> 0, file |-> EmptyText, hadSel |-> FALSE]

Init ==
    /\ impl \in {"p0", "p1"}
    /\ cssEscapeAvailable = TRUE
    /\ storageWorks \in BOOLEAN
    /\ storage \in {NoItem, NotJson, SavedItem}
    /\ FirstRender
    /\ SanIdle
    /\ ExpIdle
    /\ PanelIdle

Startup == LoadEffect0 \/ PersistEffect0 \/ Rerender0 \/ Mount1

\* uploads, reads, clicks and resets, with the notes as the one way to annotate
Session0 ==
    \/ \E file \in Files : onUploadSvg(file)
    \/ \E file \in pending : ReadDone0(file)
    \/ \E target \in DOMAIN dom : onClick(target)
    \/ \E text \in NoteTexts : setNotesDraft(text)
    \/ saveNotesOnly
    \/ clearAll

Session1 ==
    \/ \E file \in Files : handleFile(file)
    \/ \E file \in pending : ReadDone1(file)
    \/ \E target \in DOMAIN dom : handleClick(target)
    \/ Deselect
    \/ \E text \in NoteTexts : updateDescription(text)
    \/ removeSvg

Next == Startup \/ Session0 \/ Session1

Spec == Init /\ [][Next]_vars

-----------------------------------------------------------------------------
(* Editing: both implementations started on the snapshot of a previous      *)
(* session, then clicks and the handlers of the details panel               *)

InitEdit ==
    /\ impl \in {"p0", "p1"}
    /\ cssEscapeAvailable = TRUE
    /\ storageWorks = TRUE
    /\ storage = EditItem
    /\ FirstRender
    /\ SanIdle
    /\ ExpIdle
    /\ PanelIdle

Editing0 ==
    \/ \E target \in DOMAIN dom : onClick(target)
    \/ \E on \in BOOLEAN : setEditMode0(on)
    \/ \E text \in LabelTexts : setLabelDraft(text)
    \/ \E text \in NoteTexts : setNotesDraft(text)
    \/ \E text \in CommentTexts : setCommentDraft(text)
    \/ saveNotesOnly
    \/ saveCommentOnly
    \/ saveAll
    \/ clearAll

Editing1 ==
    \/ \E target \in DOMAIN dom : handleClick(target)
    \/ Deselect
    \/ \E on \in BOOLEAN : setEditMode1(on)
    \/ \E text \in LabelTexts : updateTitle(text)
    \/ \E text \in NoteTexts : updateDescription(text)
    \/ \E text \in CommentTexts : setDraft(text)
    \/ submit
    \/ \E id \in 0..MaxTicks : onDelete(id)

NextEdit == Startup \/ Editing0 \/ Editing1

SpecEdit == InitEdit /\ [][NextEdit]_vars


-----------------------------------------------------------------------------
(* Exporting: both implementations started on the snapshot of a previous    *)
(* session, then the export panel, with an upload, an edit and the resets   *)
(* in between                                                               *)

InitPanel ==
    /\ impl \in {"p0", "p1"}
    /\ cssEscapeAvailable = TRUE
    /\ storageWorks = TRUE
    /\ storage = SavedItem
    /\ FirstRender
    /\ SanIdle
    /\ ExpIdle
    /\ PanelIdle

Panel0 ==
    \/ \E format \in ExportFormats : setExportFormat(format)
    \/ \E picker \in BOOLEAN, anchorOk \in BOOLEAN : exportData(picker, anchorOk)
    \/ \E i \in DOMAIN saves, saved \in BOOLEAN, anchorOk \in BOOLEAN :
            SaveDone(i, saved, anchorOk)
    \/ \E clip \in ClipboardOutcomes, exec \in ExecOutcomes : handleCopyExport(clip, exec)
    \/ \E ok \in BOOLEAN : handleDownloadExport(ok)
    \/ \E open \in OpenOutcomes : handlePreviewExport(open)
    \/ onUploadSvg(FileAuto)
    \/ \E file \in pending : ReadDone0(file)
    \/ clearAll

Panel1 ==
    \/ \E format \in ExportFormats : setFormat(format)
    \/ \E clip \in ClipboardOutcomes : onCopy(clip)
    \/ \E ok \in BOOLEAN : onDownload(ok)
    \/ \E open \in OpenOutcomes : onPreview(open)
    \/ handleFile(FileAuto)
    \/ \E file \in pending : ReadDone1(file)
    \/ \E target \in DOMAIN dom : handleClick(target)
    \/ \E text \in NoteTexts : updateDescription(text)
    \/ removeSvg

NextPanel == Startup \/ Panel0 \/ Panel1

SpecPanel == InitPanel /\ [][NextPanel]_vars


-----------------------------------------------------------------------------
(* The package beside the application: both implementations started on the  *)
(* snapshot of a previous session, the HTML package of the document opened  *)
(* in a browser, and the same clicks on both                                *)

\* the exported HTML file is opened in a browser while nothing is selected, so
\* that the application and the page start from the same empty state
openPackage ==
    /\ phase = "ready" /\ ~crashed
    /\ svgText # NullMarkup
    /\ selectedKey = Null
    /\ ~viewer.open
    /\ viewer' = scriptStart(baseSvgMarkup, EmittedScriptRuns)
    /\ last' = Last("open", 0, EmptyText)
    /\ UNCHANGED <<sessionVars, envVars, sanVars, expVars, panelVars, uploads>>

InitViewer ==
    /\ impl \in {"p0", "p1"}
    /\ cssEscapeAvailable \in BOOLEAN
    /\ storageWorks = TRUE
    /\ storage \in {SavedItem, EditItem}
    /\ FirstRender
    /\ SanIdle
    /\ ExpIdle
    /\ PanelIdle

NextViewer ==
    \/ Startup
    \/ openPackage
    \/ \E target \in DOMAIN dom : onClick(target)
    \/ \E target \in DOMAIN dom : handleClick(target)
    \/ Deselect
    \/ clearAll

SpecViewer == InitViewer /\ [][NextViewer]_vars

-----------------------------------------------------------------------------
(* One document: either implementation reading one file of the enumerated   *)
(* documents, then clicks on its elements and resets                         *)

InitDoc ==
    /\ impl \in {"p0", "p1"}
    /\ cssEscapeAvailable \in BOOLEAN
    /\ storageWorks = TRUE
    /\ storage = Item("snapshot", NullMarkup, EmptyStore)
    /\ phase = "ready"
    /\ loaded = NoItem
    /\ svgText = NullMarkup
    /\ parsedSvg = NoResult
    /\ annotations = EmptyStore
    /\ selectedKey = Null
    /\ editMode = TRUE
    /\ labelDraft = NoText
    /\ notesDraft = NoText
    /\ commentDraft = NoText
    /\ error = NoError
    /\ SomeSvgDoc(ClickRoots, ClickKinds, LAMBDA d :
            /\ pending = {d}
            /\ last = [op |-> "choose", target |-> 0, file |-> EmptyText, hadSel |-> FALSE])
    /\ dom = <<>>
    /\ ticks = 0
    /\ crashed = FALSE
    /\ SanIdle
    /\ ExpIdle
    /\ PanelIdle

NextDoc ==
    \/ \E file \in pending : ReadDone0(file)
    \/ \E file \in pending : ReadDone1(file)
    \/ \E target \in DOMAIN dom : onClick(target)
    \/ \E target \in DOMAIN dom : handleClick(target)
    \/ Deselect
    \/ clearAll

SpecDoc == InitDoc /\ [][NextDoc]_vars

-----------------------------------------------------------------------------
(* The sanitizer pipeline: safeParseSvg on an input, then on its own output *)

InitSan ==
    /\ impl = "p0"
    /\ cssEscapeAvailable = TRUE
    /\ storageWorks = TRUE
    /\ storage = NoItem
    /\ FirstRender
    /\ sanStage = "input"
    /\ SomeSvgDoc(RootKinds, ElemKinds, LAMBDA d : sanIn = d) \/ sanIn \in {BadText, EmptyText}
    /\ sanOut1 = NoResult
    /\ sanOut2 = NoResult
    /\ sanPkg = NullMarkup
    /\ ExpIdle
    /\ PanelIdle

Sanitize ==
    /\ sanStage = "input"
    /\ sanOut1' = safeParseSvg(sanIn)
    /\ sanStage' = "once"
    /\ UNCHANGED <<sanIn, sanOut2, sanPkg, envVars, appVars, expVars, panelVars, uploads, viewer>>

Resanitize ==
    /\ sanStage = "once"
    /\ sanOut1.svg # NullMarkup
    /\ sanOut2' = safeParseSvg(sanOut1.svg)
    /\ sanPkg' = HtmlPackageSvg(sanOut1.svg)
    /\ sanStage' = "twice"
    /\ UNCHANGED <<sanIn, sanOut1, envVars, appVars, expVars, panelVars, uploads, viewer>>

NextSan == Sanitize \/ Resanitize

SpecSan == InitSan /\ [][NextSan]_vars

-----------------------------------------------------------------------------
(* The annotated-SVG export: buildAnnotatedSvg on every enumerated document  *)
(* and snapshot, and on its own output                                       *)

\* a key with a quotation mark
KeyQuote == <<"q", "\"">>

\* the element kinds of the exported documents
ExportKinds == {
    <<"g", KeyA, Null, <<>> >>,
    <<"rect", Null, AutoKey(1), <<>> >>,
    <<"rect", Null, Null, <<>> >>,
    <<"title", Null, Null, <<>> >>,
    <<"desc", Null, Null, <<>> >>,
    <<"metadata", MetadataId, Null, <<>> >> }

ExportRoots == { <<"svg", Null, Null, <<>> >> }

\* title, desc and metadata elements hold text, not elements
TextOnly(doc) ==
    \A n \in DOMAIN doc :
        doc[n].parent # 0 => doc[doc[n].parent].tag \notin {"title", "desc", "metadata"}

\* the title, desc and metadata elements of an input document hold a text
WithOldText(doc) ==
    [n \in DOMAIN doc |->
        IF doc[n].tag \in {"title", "desc", "metadata"}
        THEN [doc[n] EXCEPT !.text = <<"o">>] ELSE doc[n]]

\* the keys of a snapshot: two an element of the document may carry, two that
\* resolve to no element
ExportKeys == {KeyA, AutoKey(1), KeyB, KeyQuote}

ExportAnnotation(key) ==
    IF key = KeyA
    THEN [title |-> <<"x">>, description |-> <<"n">>,
          comments |-> <<[id |-> 1, text |-> <<"c">>, createdAt |-> 1]>>]
    ELSE EmptyAnnotation

ExportStores == {[k \in keys |-> ExportAnnotation(k)] : keys \in SUBSET ExportKeys}

\* part_001 holds the same buildAnnotatedSvg, line for line
InitExport ==
    /\ impl = "p0"
    /\ cssEscapeAvailable = TRUE
    /\ storageWorks = TRUE
    /\ storage = NoItem
    /\ FirstRender
    /\ SanIdle
    /\ PanelIdle
    /\ expStage = "input"
    /\ \E store \in ExportStores :
        \/ SomeSvgDoc(ExportRoots, ExportKinds, LAMBDA d :
                /\ TextOnly(d)
                /\ expIn = [svg |-> WithOldText(d), annotations |-> store])
        \/ expIn = [svg |-> BadText, annotations |-> store]
    /\ expOut1 = NullMarkup
    /\ expOut2 = NullMarkup
    /\ pkgStage = "idle"
    /\ pkgIn = [svg |-> <<>>, annotations |-> EmptyStore]
    /\ pkgOut = <<>>

\* computeExport / ExportGenerator with the format "svg"
ExportSvg ==
    /\ expStage = "input"
    /\ expOut1' = buildAnnotatedSvg(expIn.svg, expIn.annotations)
    /\ expStage' = "once"
    /\ UNCHANGED <<expIn, expOut2, pkgStage, pkgIn, pkgOut, envVars, appVars, sanVars, panelVars, uploads, viewer>>

\* the export of a document that was itself exported before
ExportSvgAgain ==
    /\ expStage = "once"
    /\ expOut2' = buildAnnotatedSvg(expOut1, expIn.annotations)
    /\ expStage' = "twice"
    /\ UNCHANGED <<expIn, expOut1, pkgStage, pkgIn, pkgOut, envVars, appVars, sanVars, panelVars, uploads, viewer>>

NextExport == ExportSvg \/ ExportSvgAgain

\* pkgIn.svg is cleanSvg as the try block of buildHtmlPackage leaves it: the
\* serialized SVG, or the text as given when it has no svg element
InitPackage ==
    /\ impl = "p0"
    /\ cssEscapeAvailable = TRUE
    /\ storageWorks = TRUE
    /\ storage = NoItem
    /\ FirstRender
    /\ SanIdle
    /\ PanelIdle
    /\ expStage = "idle"
    /\ expIn = [svg |-> NullMarkup, annotations |-> EmptyStore]
    /\ expOut1 = NullMarkup
    /\ expOut2 = NullMarkup
    /\ pkgStage = "input"
    /\ \/ \E text \in PackageTexts(MaxText) : pkgIn = [svg |-> text, annotations |-> EmptyStore]
       \/ \E text \in PackageTexts(MaxText - 1) :
            \E place \in {"key", "title", "description", "comment"} :
                pkgIn = [svg |-> <<"x">>, annotations |-> PackageStore(place, text)]
    /\ pkgOut = <<>>

\* computeExport / ExportGenerator with the format "html"
ExportHtml ==
    /\ pkgStage = "input"
    /\ pkgOut' = HtmlPackageText(pkgIn.svg, pkgIn.annotations)
    /\ pkgStage' = "built"
    /\ UNCHANGED <<pkgIn, expStage, expIn, expOut1, expOut2, envVars, appVars, sanVars, panelVars, uploads, viewer>>

NextPackage == ExportHtml

SpecPackage == InitPackage /\ [][NextPackage]_vars

SpecExport == InitExport /\ [][NextExport]_vars

-----------------------------------------------------------------------------
(* Properties of safeParseSvg, checked under SpecSan *)

\* the elements of a text that are neither script elements nor inside one
Survivors(doc) ==
    {i \in DOMAIN doc :
        doc[i].tag # "script" /\ \A a \in Ancestors(doc, i) : doc[a].tag # "script"}

\* the n-th of them in document order
SurvivorAt(doc, n) ==
    CHOOSE i \in Survivors(doc) : Cardinality({k \in Survivors(doc) : k <= i}) = n

Sanitized == sanStage # "input" /\ sanOut1.error = NoError

\* the input element that element n of the sanitized markup comes from
InputOf(n) == sanIn[SurvivorAt(sanIn, n)]

SameElements == Len(sanOut1.svg) = Cardinality(Survivors(sanIn))

\* element n was given a data-annot-key attribute it did not have
Synthesized(n) == ~HasAttr(InputOf(n).dak) /\ HasAttr(sanOut1.svg[n].dak)

GroupOrShape(e) == e.tag \in ({"g"} \cup ShapeTags)

HandAuthoredId(doc) == \E i \in Survivors(doc) : GroupOrShape(doc[i]) /\ Truthy(doc[i].id)

NoIdOnGroupOrShape(doc) == \A i \in DOMAIN doc : GroupOrShape(doc[i]) => ~HasAttr(doc[i].id)

GroupsWithShape(doc) ==
    {i \in DOMAIN doc :
        doc[i].tag = "g" /\ \E j \in Descendants(doc, i) : doc[j].tag \in ShapeTags}

Shapes(doc) == {i \in DOMAIN doc : doc[i].tag \in ShapeTags}

Count(seq, x) == Cardinality({i \in DOMAIN seq : seq[i] = x})

Keyed(e) == Truthy(e.id) \/ Truthy(e.dak)

\* the elements from d up to, not including, n
PathBelow(doc, d, n) == ({d} \cup Ancestors(doc, d)) \cap Descendants(doc, n)

\* element n carries the interactive style, a click on it selects its id, and so
\* does a click on every descendant that has no keyed element between
Interactive(doc, n) ==
    /\ Len(doc[n].style) > 0
    /\ doc[n].style[Len(doc[n].style)] = SelectableStyleChunk
    /\ onClickKey(doc, 1, n) = doc[n].id
    /\ findKey(doc, 1, n) = doc[n].id
    /\ \A d \in Descendants(doc, n) :
          (\A m \in PathBelow(doc, d, n) : ~Keyed(doc[m]))
              => onClickKey(doc, 1, d) = doc[n].id /\ findKey(doc, 1, d) = doc[n].id

\* C4 as stated: when a group or shape carries an id, no key is synthesized and
\* every element bearing an id, the root included, ends up interactive.
C4_EveryIdElementInteractive ==
    (Sanitized /\ HandAuthoredId(sanIn)) =>
        /\ SameElements
        /\ \A n \in DOMAIN sanOut1.svg : ~Synthesized(n)
        /\ \A n \in DOMAIN sanOut1.svg :
              Truthy(sanOut1.svg[n].id) => Interactive(sanOut1.svg, n)

\* C4 amended: when a group or shape carries an id, no data-annot-key attribute
\* is created, and every element below the SVG root that bears an id carries the
\* interactive style and is selected by a click on it or on a descendant that
\* has no keyed element in between.
C4_IdElementsBelowRootInteractive ==
    (Sanitized /\ HandAuthoredId(sanIn)) =>
        /\ SameElements
        /\ \A n \in DOMAIN sanOut1.svg : ~Synthesized(n)
        /\ \A n \in 2..Len(sanOut1.svg) :
              Truthy(sanOut1.svg[n].id) => Interactive(sanOut1.svg, n)

\* a sanitized document with a group that has an id and a descendant, next to
\* an element that has no key
C4_Witness ==
    /\ Sanitized /\ HandAuthoredId(sanIn)
    /\ \E n \in 2..Len(sanOut1.svg) :
          /\ sanOut1.svg[n].tag = "g" /\ Truthy(sanOut1.svg[n].id)
          /\ \E d \in Descendants(sanOut1.svg, n) : ~Keyed(sanOut1.svg[d])
    /\ \E m \in 2..Len(sanOut1.svg) :
          ~Keyed(sanOut1.svg[m]) /\ sanOut1.svg[m].parent = 1

CarriesKeyAttr(doc) == \E i \in Descendants(doc, 1) : HasAttr(doc[i].dak)

KeyList(doc) == [n \in DOMAIN doc |-> <<doc[n].id, doc[n].dak>>]

\* C6: a second safeParseSvg pass leaves every element's id and data-annot-key
\* and the number of interactive elements as the first pass left them.
C6_KeysIdempotent ==
    sanStage = "twice" =>
        /\ KeyList(sanOut2.svg) = KeyList(sanOut1.svg)
        /\ Cardinality(Selectable(sanOut2.svg, 1)) = Cardinality(Selectable(sanOut1.svg, 1))

\* a document whose first pass removed a script and synthesized a key was
\* sanitized a second time
C6_Witness ==
    /\ sanStage = "twice"
    /\ Len(sanOut1.svg) < Len(sanIn)
    /\ \E n \in DOMAIN sanOut1.svg : Synthesized(n)

\* C7: sanitizing sanitized markup yields the same markup, with the root sizing
\* style and each element's interactive style present once; so does the root
\* style buildHtmlPackage applies to sanitized markup.
C7_StylesNotAppendedAgain ==
    sanStage = "twice" =>
        /\ sanOut2.svg = sanOut1.svg
        /\ Count(sanOut2.svg[1].style, RootStyleChunk) = 1
        /\ \A n \in Selectable(sanOut2.svg, 1) :
              Count(sanOut2.svg[n].style, SelectableStyleChunk) = 1
        /\ Count(sanPkg[1].style, RootStyleChunk) = 1

\* safeParseSvg's output holds no script element
SanitizedHasNoScript ==
    Sanitized => \A n \in DOMAIN sanOut1.svg : sanOut1.svg[n].tag # "script"


\* C24 (as stated): after sanitation no synthesized key equals the key or the
\* id of another element of the document
C24_SynthesizedKeysUnique ==
    Sanitized =>
        \A n \in DOMAIN sanOut1.svg : Synthesized(n) =>
            \A m \in DOMAIN sanOut1.svg \ {n} :
                /\ sanOut1.svg[m].dak # sanOut1.svg[n].dak
                /\ sanOut1.svg[m].id # sanOut1.svg[n].dak

\* the part of C24 that holds: the synthesized keys are pairwise distinct
C24_SynthesizedPairwiseDistinct ==
    Sanitized =>
        \A n, m \in DOMAIN sanOut1.svg :
            (Synthesized(n) /\ Synthesized(m) /\ n # m)
                => sanOut1.svg[m].dak # sanOut1.svg[n].dak

\* the input uses the name auto_1 as an id or as a key
InputNamesAuto ==
    \E i \in DOMAIN sanIn : sanIn[i].id = AutoKey(1) \/ sanIn[i].dak = AutoKey(1)

\* the part of C24 that holds: for an input that does not itself use a name
\* of the form auto_N, a synthesized key equals no other key and no id
C24_UniqueWithoutAutoNames ==
    (Sanitized /\ ~InputNamesAuto) =>
        \A n \in DOMAIN sanOut1.svg : Synthesized(n) =>
            \A m \in DOMAIN sanOut1.svg \ {n} :
                /\ sanOut1.svg[m].dak # sanOut1.svg[n].dak
                /\ sanOut1.svg[m].id # sanOut1.svg[n].dak

-----------------------------------------------------------------------------
(* Properties of the session, checked under Spec *)

HasScript(markup) == \E n \in DOMAIN markup : markup[n].tag = "script"

\* safeParseSvg finds an SVG root in the text
HasSvgRoot(text) == safeParseSvg(text).error = NoError

\* the elements that carry the highlight
Highlighted == {n \in DOMAIN dom : dom[n].hl}

\* XMLSerializer's text of an element: the tag with its attributes, the text
\* content, the children, the closing tag
RECURSIVE XmlOf(_, _)
RECURSIVE XmlOfAll(_, _)
XmlOf(doc, n) ==
    LET attr(name, v) == IF v = Null THEN <<>> ELSE <<" ", name, "=", "\"">> \o v \o <<"\"">>
    IN  <<"<", doc[n].tag>> \o attr("id", doc[n].id) \o attr("data-annot-key", doc[n].dak)
            \o attr("style", IF doc[n].style = <<>> THEN Null ELSE doc[n].style) \o <<">">>
            \o doc[n].text \o XmlOfAll(doc, {c \in DOMAIN doc : doc[c].parent = n})
            \o <<"<", "/", doc[n].tag, ">">>

XmlOfAll(doc, S) ==
    IF S = {} THEN <<>> ELSE XmlOf(doc, First(S)) \o XmlOfAll(doc, S \ {First(S)})

\* the text of a markup
MarkupText(markup) == XmlOfAll(markup, {n \in DOMAIN markup : markup[n].parent = 0})

\* the text of the JSON export. p0, computeExport:
\* JSON.stringify({ exportedAt: nowIso(), svgText: baseSvgMarkup, annotations });
\* p1, ExportGenerator: JSON.stringify({ exportedAt: nowIso(), annotations })
JsonExport ==
    IF impl = "p0"
    THEN <<"{", "\"exportedAt\"", ":">> \o JsonString(nowIso)
            \o <<",", "\"svgText\"", ":">> \o JsonString(MarkupText(baseSvgMarkup))
            \o <<",", "\"annotations\"", ":">> \o JsonStore(annotations) \o <<"}">>
    ELSE JsonSnapshot(annotations)

\* the fields of an export from position i on, after "{" or ",": the names in
\* their order, and the values of svgText and annotations
RECURSIVE ParseExportFields(_, _, _)
ParseExportFields(t, i, acc) ==
    IF ~JsonAt(t, i + 1, ":") THEN JsonFail
    ELSE LET value == IF t[i] = "\"annotations\"" THEN ParseStore(t, i + 2)
                      ELSE IF t[i] \in {"\"exportedAt\"", "\"svgText\""}
                           THEN ParseString(t, i + 2)
                      ELSE JsonFail
             seen == [acc EXCEPT !.names = Append(@, t[i])]
             next == IF ~value.ok THEN seen
                     ELSE IF t[i] = "\"annotations\"" THEN [seen EXCEPT !.annotations = value.val]
                     ELSE IF t[i] = "\"svgText\"" THEN [seen EXCEPT !.svgText = value.val]
                     ELSE seen
         IN  IF ~value.ok THEN JsonFail
             ELSE IF JsonAt(t, value.next, ",") THEN ParseExportFields(t, value.next + 1, next)
             ELSE IF JsonAt(t, value.next, "}") /\ value.next = Len(t)
                  THEN [ok |-> TRUE, val |-> next, next |-> value.next + 1]
             ELSE JsonFail

\* JSON.parse of an export
ParseExport(t) ==
    IF JsonAt(t, 1, "{")
    THEN ParseExportFields(t, 2, [names |-> <<>>, svgText |-> <<>>, annotations |-> EmptyStore])
    ELSE JsonFail

\* the sanitized markup of the loaded document: p0 parsedSvg.svg, p1 state.svg
SanitizedMarkup == IF impl = "p0" THEN parsedSvg.svg ELSE svgText

\* a document is loaded and the export panel is there
Exportable == phase = "ready" /\ ~crashed /\ svgText # NullMarkup

\* C20 (as stated): the JSON export has exactly the fields exportedAt, svgText
\* and annotations, svgText being the sanitized text of the loaded document,
\* and its annotations field parses back to the store, in both implementations
C20_JsonExportFieldsAndRoundTrip ==
    Exportable =>
        /\ ParseExport(JsonExport).ok
        /\ ParseExport(JsonExport).val.names
                = <<"\"exportedAt\"", "\"svgText\"", "\"annotations\"">>
        /\ ParseExport(JsonExport).val.svgText = MarkupText(SanitizedMarkup)
        /\ ParseExport(JsonExport).val.annotations = annotations

\* the part of C20 about the store: the annotations field of the export parses
\* back to the store
C20_StoreRoundTrip ==
    Exportable =>
        /\ ParseExport(JsonExport).ok
        /\ ParseExport(JsonExport).val.annotations = annotations

\* the part of C20 about svgText, for part_000 alone: the exported svgText is
\* the sanitized text
C20_SvgTextIsSanitized ==
    Exportable /\ impl = "p0" =>
        ParseExport(JsonExport).val.svgText = MarkupText(SanitizedMarkup)

\* the part of C20 about the fields, for part_000 alone while the loaded text
\* has an svg element
C20_FieldsOfSvgAnnotator ==
    Exportable /\ impl = "p0" /\ parsedSvg.svg # NullMarkup =>
        /\ ParseExport(JsonExport).val.names
                = <<"\"exportedAt\"", "\"svgText\"", "\"annotations\"">>
        /\ ParseExport(JsonExport).val.svgText = MarkupText(SanitizedMarkup)

\* C1 (as stated): once the read of an uploaded SVG has completed, the
\* annotation store is empty, in both implementations
C1_StoreEmptyAfterUpload ==
    last.op = "read" /\ HasSvgRoot(last.file) => annotations = EmptyStore

\* the step replaces the document: the text changes, a reset runs, or the read
\* of a file with an SVG root completes
DocumentReplaced ==
    \/ svgText' # svgText
    \/ last'.op = "reset"
    \/ last'.op = "read" /\ HasSvgRoot(last'.file)

\* C2: at most one element is highlighted for the one selected key, and every
\* step that replaces the document (startup load, upload, reset) ends with no
\* key selected, whatever was clicked while the file was being read
C2_SelectionResetWithDocument ==
    /\ [](Cardinality(Highlighted) <= 1)
    /\ [][DocumentReplaced => selectedKey' = Null]_vars

\* a read completed while a key was selected, and the selection is gone; in p1
\* a file can only be chosen while no document is loaded, so the key was
\* clicked after the read had started
C2_Witness ==
    /\ impl = "p1"
    /\ last.op = "read" /\ HasSvgRoot(last.file) /\ last.hadSel
    /\ selectedKey = Null

\* C3 (as stated): when the read of a file without SVG root completes, the
\* error is shown and the SVG text, the store and the selection stay as they were
C3_RejectedUploadChangesNothing ==
    [][last'.op = "read" /\ ~HasSvgRoot(last'.file) =>
            /\ error' = NoSvgError
            /\ UNCHANGED <<svgText, annotations, selectedKey>>]_vars

\* C8 (as stated): no script element is in the live page, nor in the markup
\* the HTML package embeds for the current document
C8_NoScriptInPageOrExport ==
    ~HasScript(dom) /\ ~HasScript(HtmlPackageSvg(baseSvgMarkup))


\* C30: when two files are uploaded one after the other, the document loaded
\* once both reads have completed is the one uploaded last, in whichever order
\* the reads complete (p1 loads the sanitized markup of a file it accepts)
C30_LastUploadIsLoaded ==
    [][(last'.op = "read" /\ pending' = {} /\ uploads # <<>>)
        => LET latest == uploads[Len(uploads)]
           IN  IF impl = "p0" THEN svgText' = latest
               ELSE safeParseSvg(latest).svg # NullMarkup
                        => svgText' = safeParseSvg(latest).svg]_vars

\* what the code does: the document is that of the read that completed last
C30_LastReadIsLoaded ==
    [][(last'.op = "read" /\ ~crashed')
        => LET done == last'.file
           IN  IF impl = "p0" THEN svgText' = done
               ELSE safeParseSvg(done).svg # NullMarkup => svgText' = safeParseSvg(done).svg]_vars

-----------------------------------------------------------------------------
(* Properties of persistence and startup, checked under Spec *)

\* the persist effect has run at least once
Persisted == phase \in {"persisted", "ready"}

\* the snapshot of the in-memory SVG text and annotation store
MemorySnapshot == Item("snapshot", svgText, annotations)

\* C14: once the persist effect has run, a storage that accepts writes holds
\* the snapshot of the in-memory SVG text and the full store after every step;
\* a storage that rejects writes keeps what it held, and the step neither
\* fails nor depends on it
C14_StorageFollowsMemory ==
    /\ [](storageWorks /\ Persisted => storage = MemorySnapshot)
    /\ [][~storageWorks => storage' = storage]_vars
    /\ [](~storageWorks /\ last.op \in {"saveNotes", "updateDescription", "reset"}
            => ~crashed)

\* notes were saved while the storage rejects every write: the store holds
\* them, the storage is still empty
C14_Witness ==
    /\ ~storageWorks
    /\ storage = NoItem
    /\ last.op \in {"saveNotes", "updateDescription"}
    /\ selectedKey # Null
    /\ Current(annotations, selectedKey).description = <<"n">>
    /\ ~crashed

\* the step is one of the startup sequence: it starts before the component is
\* ready
StartupStep == phase # "ready"

\* what the startup found in the storage: p0 holds it between the load effect
\* and the render that applies it, p1 reads it in the step that mounts
FoundAtStartup == IF impl = "p0" THEN loaded ELSE storage

\* startup ends with the in-memory text and store of the snapshot it found, or
\* with the empty state and no error when it found none
StartupEndsWithSnapshot ==
    StartupStep /\ phase' = "ready" =>
        IF FoundAtStartup.kind = "snapshot"
        THEN svgText' = FoundAtStartup.svg /\ annotations' = FoundAtStartup.annotations
        ELSE /\ svgText' = NullMarkup /\ annotations' = EmptyStore
             /\ error' = NoError /\ ~crashed'

\* C15 (as stated): a startup on a stored snapshot S leaves S in the storage
\* at every point of the startup sequence and ends with the in-memory text and
\* store of S; a startup on an absent or unparsable item ends with the empty
\* state and no error
C15_StartupKeepsSnapshot ==
    /\ [][StartupStep /\ storage.kind = "snapshot" => storage' = storage]_vars
    /\ [][StartupEndsWithSnapshot]_vars

\* the part of C15 about the state startup ends with
C15_StartupEndsWithSnapshot == [][StartupEndsWithSnapshot]_vars

\* the part of C15 about the stored snapshot, for part_001 alone
C15_MountKeepsSnapshot ==
    [][impl = "p1" /\ StartupStep /\ storage.kind = "snapshot" => storage' = storage]_vars

-----------------------------------------------------------------------------
(* Properties of the detail-panel handlers, checked under SpecEdit *)

\* the step saves the label / notes of the selected key: "Add notes" in p0, a
\* change of the title or the description field in p1
SavesFields == last'.op \in {"saveNotes", "updateTitle", "updateDescription"}

\* every record of the store but the one of key is what it was, and no record
\* appears or disappears for another key
OthersUnchanged(key) ==
    /\ DOMAIN annotations' \ {key} = DOMAIN annotations \ {key}
    /\ \A k \in DOMAIN annotations \ {key} : annotations'[k] = annotations[k]

\* C11: saving the label / notes of the selected key writes the record of that
\* key only: the record exists afterwards with the saved fields, the fields not
\* supplied and the comments are what they were (those of the empty record if
\* there was none), and every other key keeps its record or its absence
C11_SaveFieldsScopedToKey ==
    [][SavesFields =>
        /\ selectedKey' = selectedKey
        /\ selectedKey \in DOMAIN annotations'
        /\ annotations'[selectedKey].comments = Current(annotations, selectedKey).comments
        /\ last'.op = "saveNotes" =>
                /\ annotations'[selectedKey].title = labelDraft
                /\ annotations'[selectedKey].description = notesDraft
        /\ last'.op = "updateTitle" =>
                annotations'[selectedKey].description
                    = Current(annotations, selectedKey).description
        /\ last'.op = "updateDescription" =>
                annotations'[selectedKey].title = Current(annotations, selectedKey).title
        /\ OthersUnchanged(selectedKey)]_vars

\* notes were saved for "b", which had no record: the record exists, with no
\* comments, next to the untouched record of "a" and its comment
C11_Witness ==
    /\ last.op \in {"saveNotes", "updateDescription"}
    /\ selectedKey = KeyB
    /\ DOMAIN annotations = {KeyA, KeyB}
    /\ annotations[KeyB].description = <<"n">>
    /\ annotations[KeyB].comments = <<>>
    /\ annotations[KeyA] = EditAnnotations[KeyA]

\* the comments of key in the store before and after the step
CommentsOf(key) == Current(annotations, key).comments
CommentsAfter(key) == Current(annotations', key).comments

\* the step appends one entry with the trimmed draft as text and an id no
\* earlier entry of the record has, after the earlier entries as they were
AppendsOne(key) ==
    /\ key \in DOMAIN annotations'
    /\ Len(CommentsAfter(key)) = Len(CommentsOf(key)) + 1
    /\ SubSeq(CommentsAfter(key), 1, Len(CommentsOf(key))) = CommentsOf(key)
    /\ CommentsAfter(key)[Len(CommentsAfter(key))].text = Trim(commentDraft)
    /\ \A n \in DOMAIN CommentsOf(key) :
            CommentsOf(key)[n].id # CommentsAfter(key)[Len(CommentsAfter(key))].id

\* C12: "Save comment" / "Add Comment" with a draft that is blank after
\* trimming leaves the store as it is (no record is created); with any other
\* draft it appends exactly one entry with a fresh id at the end of the
\* selected key's comments and leaves the earlier entries and every other
\* record as they were. "Save all" treats its comment draft the same way
C12_BlankIgnoredElseAppended ==
    [][(last'.op = "saveComment" =>
            IF Trim(commentDraft) = NoText
            THEN annotations' = annotations
            ELSE (AppendsOne(selectedKey) /\ OthersUnchanged(selectedKey)))
       /\ (last'.op = "saveAll" =>
            IF Trim(commentDraft) = NoText
            THEN CommentsAfter(selectedKey) = CommentsOf(selectedKey)
            ELSE (AppendsOne(selectedKey) /\ OthersUnchanged(selectedKey)))]_vars

\* a blank draft was submitted for "b", which still has no record, after two
\* comments had been appended to the stored one of "a"
C12_Witness ==
    /\ last.op = "saveComment"
    /\ commentDraft = <<" ">>
    /\ selectedKey = KeyB
    /\ DOMAIN annotations = {KeyA}
    /\ Len(annotations[KeyA].comments) = 3
    /\ annotations[KeyA].comments[1] = EditAnnotations[KeyA].comments[1]
    /\ annotations[KeyA].comments[3].text = <<"c">>

\* the positions of the entries with this id among the comments of key
EntriesWithId(key, id) == {n \in DOMAIN CommentsOf(key) : CommentsOf(key)[n].id = id}

\* the step removes the entry at position n of key's comments and keeps the
\* entries before and after it, in their order
RemovesEntry(key, n) ==
    CommentsAfter(key) =
        SubSeq(CommentsOf(key), 1, n - 1)
            \o SubSeq(CommentsOf(key), n + 1, Len(CommentsOf(key)))

C13_PresentIdRemoved ==
    [][last'.op = "deleteComment" /\ EntriesWithId(selectedKey, last'.target) # {} =>
        /\ \E n \in EntriesWithId(selectedKey, last'.target) : RemovesEntry(selectedKey, n)
        /\ OthersUnchanged(selectedKey)]_vars

\* an id no entry has leaves every comment list as it was
C13_AbsentIdKeepsComments ==
    [][last'.op = "deleteComment" /\ EntriesWithId(selectedKey, last'.target) = {} =>
        /\ \A k \in {KeyA, KeyB} : CommentsAfter(k) = CommentsOf(k)
        /\ OthersUnchanged(selectedKey)]_vars


\* C23: while View mode is active, no action of the details and comments
\* panels changes an annotation record: the only step that changes the store
\* with edit mode off is the reset of the header (Clear notes)
C23_ViewModeKeepsRecords ==
    [][(~editMode /\ last'.op # "reset") => annotations' = annotations]_vars

\* view mode with an annotated element selected: the panels show its record
C23_Witness ==
    /\ ~editMode
    /\ selectedKey # Null
    /\ selectedKey \in DOMAIN annotations
    /\ last.op = "click"


\* an entry with an empty title, an empty description and no comment
AllEmpty(a) == a.title = NoText /\ a.description = NoText /\ a.comments = <<>>

\* C26 (as stated): the store never contains an entry whose title is empty,
\* description is empty and comment list is empty
C26_NoAllEmptyEntry == \A key \in DOMAIN annotations : ~AllEmpty(annotations[key])

\* the part of C26 that holds: an entry is all-empty only after an edit of its
\* key: a step never adds an all-empty entry for another key than the selected one
C26_AllEmptyOnlyBySelectedEdit ==
    [][\A key \in DOMAIN annotations' :
            (AllEmpty(annotations'[key])
                /\ (key \notin DOMAIN annotations \/ ~AllEmpty(annotations[key])))
            => key = selectedKey]_vars


\* C29 (as stated): in part_000 saving label and notes leaves a non-empty
\* comment draft unchanged, and saving a comment leaves the label and notes
\* drafts unchanged
C29_SavingKeepsOtherDrafts ==
    [][impl = "p0" =>
        /\ (last'.op = "saveNotes" /\ commentDraft # NoText) => commentDraft' = commentDraft
        /\ (last'.op = "saveComment" /\ annotations' # annotations)
                => (labelDraft' = labelDraft /\ notesDraft' = notesDraft)]_vars

\* the part of C29 that holds: a blank comment draft changes nothing when
\* saved, drafts included
C29_BlankCommentKeepsDrafts ==
    [][(impl = "p0" /\ last'.op = "saveComment" /\ annotations' = annotations)
            => (labelDraft' = labelDraft /\ notesDraft' = notesDraft
                    /\ commentDraft' = commentDraft)]_vars

-----------------------------------------------------------------------------
(* Properties of click resolution and highlight, checked under SpecDoc *)

\* the elements from el up to, but excluding, the root that carry a key
KeyedOnPath(doc, el) ==
    {n \in ({el} \cup Ancestors(doc, el)) \ {QuerySvg(doc)} : Keyed(doc[n])}

\* the nearest of them: all the others are its ancestors
Nearest(doc, el) ==
    CHOOSE n \in KeyedOnPath(doc, el) : KeyedOnPath(doc, el) \ {n} \subseteq Ancestors(doc, n)

\* C9: a click selects the key of the nearest keyed element between the target
\* and the root (root excluded); with no keyed element there the click changes
\* nothing; a click resolving to the selected key changes nothing
C9_ClickSelectsNearestKey ==
    [][last'.op = "click" =>
        IF KeyedOnPath(dom, last'.target) = {}
        THEN UNCHANGED <<envVars, storage, phase, loaded, svgText, parsedSvg, annotations,
                         selectedKey, editMode, labelDraft, notesDraft, commentDraft,
                         error, pending, dom, ticks, crashed>>
        ELSE /\ selectedKey' = getElementKey(dom[Nearest(dom, last'.target)])
             /\ selectedKey' = selectedKey =>
                    UNCHANGED <<envVars, storage, phase, loaded, svgText, parsedSvg,
                                annotations, editMode, labelDraft, notesDraft,
                                commentDraft, error, pending, dom, ticks, crashed>>]_vars

\* a click on an element without key of its own selected the key of an ancestor
\* below the root, passing a nearer and a farther keyed ancestor apart
C9_Witness ==
    /\ last.op = "click" /\ ~crashed
    /\ ~Keyed(dom[last.target])
    /\ Cardinality(KeyedOnPath(dom, last.target)) = 2
    /\ selectedKey = getElementKey(dom[Nearest(dom, last.target)])

\* C10 (as stated): after a click that resolved to a key, the highlighted
\* element is the element the click resolution stopped at
C10_HighlightIsClickedElement ==
    last.op = "click" =>
        /\ ~crashed
        /\ KeyedOnPath(dom, last.target) # {} =>
                Highlighted = {Nearest(dom, last.target)}


\* the elements of a DOM whose inline style holds the highlight text
Lit(d) ==
    {n \in DOMAIN d : \E i \in DOMAIN d[n].style :
        d[n].style[i] \in {HighlightChunk0, HighlightChunk1}}

\* the inline style of element n as the sanitized markup gave it
StyleBefore(n) == SanitizedMarkup[n].style

\* C25: on a loaded document at most one element carries the highlight style,
\* it is an element of the selected key and its style is its first style plus
\* the highlight text once; every other element has the style it had before
\* it was first highlighted; after a deselect or Clear notes no element is
\* highlighted
C25_HighlightFollowsSelection ==
    /\ [](dom # <<>> =>
            /\ Cardinality(Lit(dom)) <= 1
            /\ \A n \in Lit(dom) :
                    /\ selectedKey # Null
                    /\ getElementKey(dom[n]) = selectedKey
                    /\ dom[n].style
                        = Append(StyleBefore(n),
                                 IF impl = "p0" THEN HighlightChunk0 ELSE HighlightChunk1)
            /\ \A n \in DOMAIN dom \ Lit(dom) : dom[n].style = StyleBefore(n))
    /\ [][last'.op \in {"deselect", "reset"} => Lit(dom') = {}]_vars

\* a click moved the selection from one keyed element to another: the first
\* has its style back, the second is highlighted
C25_Witness ==
    /\ last.op = "click" /\ last.hadSel
    /\ Cardinality(Lit(dom)) = 1
    /\ \E n \in DOMAIN dom \ Lit(dom) :
            /\ Keyed(dom[n]) /\ n # QuerySvg(dom)
            /\ getElementKey(dom[n]) # selectedKey
            /\ Truthy(dom[n].orig)
            /\ dom[n].style = StyleBefore(n)


-----------------------------------------------------------------------------
(* Properties of the export panel, checked under SpecPanel *)

\* the content type and the file names of a format
MimeOf(format) ==
    IF format = "html" THEN "text/html"
    ELSE IF format = "svg" THEN "image/svg+xml" ELSE "application/json"

NamesOf(format) ==
    IF format = "html" THEN {"svg-notes.html", "svg-annotations.html"}
    ELSE IF format = "svg" THEN {"diagram-annotated.svg", "svg-annotations.svg"}
    ELSE {"svg-annotations.json"}

\* a delivery that reached the platform with a content type
Handed(d) == d.via \in {"picker", "anchor", "window"}

ConsistentTriple(d) ==
    /\ d.mime = MimeOf(d.text.format)
    /\ d.filename # "" => d.filename \in NamesOf(d.text.format)

\* C21: every delivery from the export panel hands over a text, a filename and
\* a content type that belong to the one format the text was generated in,
\* whatever the format selector was set to in between
C21_DeliveryIsConsistentTriple == Handed(delivered) => ConsistentTriple(delivered)

\* what holds in p0: the Export button itself, with or without the picker,
\* hands over the triple computeExport returned
C21_ExportDataIsConsistent ==
    [][(impl = "p0" /\ last'.op \in {"export", "saveDone"} /\ delivered' # delivered
            /\ Handed(delivered'))
        => ConsistentTriple(delivered')]_vars

\* what holds in both: the file name always fits the format of the text
C21_FilenameFitsText ==
    (Handed(delivered) /\ delivered.filename # "")
        => delivered.filename \in NamesOf(delivered.text.format)

DeliveryOps == {"export", "saveDone", "copy", "download", "preview"}

BlockedStatuses ==
    {"Download blocked - use Copy.", "Copy blocked - Ctrl/Cmd+A then Ctrl/Cmd+C.",
     "Preview blocked - use Download or Copy.", "Export blocked - use Copy."}

\* the status names the path the delivery took, or says that it was blocked
StatusReports(d, status) ==
    /\ d.via = "picker" => status = "Saved via file picker."
    /\ d.via = "anchor" => status \in {"Download attempted (may be blocked in preview).",
                                      "Download attempted."}
    /\ d.via \in {"clipboard", "execCommand"} => status = "Copied to clipboard."
    /\ d.via = "window" => status = "Opened preview in a new tab."
    /\ d.via = "blocked" => status \in BlockedStatuses

\* a step that ends a delivery attempt: every delivery handler, apart from the
\* Export that is still waiting for the picker
AttemptEnds == last'.op \in DeliveryOps /\ ~(last'.op = "export" /\ saves' # saves)

\* C22: every delivery attempt (save, download, copy, preview) ends with a
\* status the user sees, which reports the path that succeeded or that the
\* action was blocked, in both implementations
C22_EveryAttemptEndsWithStatus ==
    [][AttemptEnds => (exportStatus' # "" /\ StatusReports(delivered', exportStatus'))]_vars

\* what holds: in p0 every attempt ends with a status
C22_StatusInSvgAnnotator ==
    [][(AttemptEnds /\ impl = "p0") => exportStatus' # ""]_vars

\* what holds: in p0 the status is right whenever window.open says what it did
C22_ReportInSvgAnnotator ==
    [][(AttemptEnds /\ impl = "p0" /\ ~(last'.op = "preview" /\ delivered'.via = "blocked"))
        => StatusReports(delivered', exportStatus')]_vars

HandlerOps == {"copy", "download", "preview"}

\* C28: every export is computed from the SVG text and the annotation store of
\* one state instant: the text of an Export is that of the state in which the
\* button was pressed, the save that follows the picker hands over the text of
\* a waiting call as it was computed, and every other delivery hands over the
\* text the panel holds (p0) or the memo of the current state (p1)
C28_ExportReadsOneInstant ==
    [][/\ (last'.op = "export")
            => /\ exportText' = ExportOf(exportFormat, baseSvgMarkup, annotations)
               /\ (saves' # saves) => (\E s \in {computeExport} : /\ saves' = Append(saves, s)
                                                                  /\ s.text = exportText')
               /\ (saves' = saves) => (delivered'.text = exportText')
       /\ (last'.op = "saveDone" /\ saves' # saves)
            => (\E i \in DOMAIN saves : /\ saves' = Resumed(saves, i)
                                          /\ delivered'.text = saves[i].text)
       /\ (last'.op \in HandlerOps /\ impl = "p0") => (delivered'.text = exportText)
       /\ (last'.op \in HandlerOps /\ impl = "p1")
            => (delivered'.text = ExportOf(exportFormat,
                    IF exportFormat = "json" THEN NullMarkup ELSE baseSvgMarkup, annotations))
      ]_vars

\* an Export was saved through the picker after the store had changed
C28_Witness ==
    /\ last.op = "saveDone"
    /\ delivered.via = "picker"
    /\ delivered.text.annotations # annotations
    /\ delivered.text.svg # baseSvgMarkup


-----------------------------------------------------------------------------
(* Properties of the page of the HTML package, checked under SpecViewer *)

\* the page shows the package of the document the application holds
SameDocument == viewer.open /\ viewer.svg = baseSvgMarkup /\ ~crashed

\* C27: the click handling of the HTML package behaves as the live controller:
\* after every click the selected key and the set of highlighted elements are
\* the same in both, and when the live controller returns to the empty state
\* so does the page
C27_PackageFollowsLiveController ==
    SameDocument => (viewer.key = selectedKey /\ LitInPackage(viewer) = Lit(dom))

\* what holds: while nothing has been selected since the page was opened, the
\* two agree
C27_AgreeWhileIdle ==
    (SameDocument /\ selectedKey = Null /\ last.op \in {"open", "click"})
        => (viewer.key = Null /\ LitInPackage(viewer) = {} /\ Lit(dom) = {})


\* the live controller on a click on target: the key the handler resolves and
\* the highlight the effect draws; threw: the effect threw
LiveClick(l, target) ==
    LET svg == QuerySvg(l.dom)
        key == IF impl = "p0" THEN onClickKey(l.dom, svg, target)
               ELSE findKey(l.dom, svg, target)
        lit == IF impl = "p0" THEN highlight(l.dom, svg, key) ELSE HighlightEffect(l.dom, key)
    IN  IF l.threw \/ key = Null \/ key = l.key THEN l
        ELSE [dom |-> lit.dom, key |-> key, threw |-> lit.threw]

\* what holds for the script as it is written in the template, had the browser
\* run it: from the empty state, after any two clicks, it shows the key and
\* highlights the elements the live controller does
C27_WrittenHandlerAgreesOnClicks ==
    (phase = "ready" /\ ~crashed /\ dom # <<>> /\ selectedKey = Null) =>
        LET v0 == scriptStart(baseSvgMarkup, TRUE)
            l0 == [dom |-> dom, key |-> Null, threw |-> FALSE]
        IN  \A t1 \in DOMAIN dom, t2 \in DOMAIN dom :
                LET l2 == LiveClick(LiveClick(l0, t1), t2)
                    v2 == clickInPackage(clickInPackage(v0, t1), t2)
                IN  ~l2.threw => (v2.key = l2.key /\ LitInPackage(v2) = Lit(l2.dom))

-----------------------------------------------------------------------------
(* Properties of buildAnnotatedSvg, checked under SpecExport *)

\* the elements of doc that carry key as id or data-annot-key
Carriers(doc, key) == {n \in DOMAIN doc : doc[n].id = key \/ doc[n].dak = key}

\* the children of element el with the tag
ChildrenWithTag(doc, el, tag) == {c \in DOMAIN doc : doc[c].parent = el /\ doc[c].tag = tag}

\* some element that carries the key has a title and a desc child with the
\* texts made from the key's annotation
AnnotatedFor(doc, key, a) ==
    \E el \in Carriers(doc, key) :
        /\ \E t \in ChildrenWithTag(doc, el, "title") : doc[t].text = tooltip(key, a)
        /\ \E d \in ChildrenWithTag(doc, el, "desc") : doc[d].text = full(key, a)

\* the title and desc children of the elements that carry no key of the
\* store, in document order, each with the kind of its parent and its text
ForeignTitles(doc, store) ==
    LET S == {n \in DOMAIN doc :
                /\ doc[n].tag \in {"title", "desc"}
                /\ doc[n].parent # 0
                /\ doc[doc[n].parent].id \notin DOMAIN store
                /\ doc[doc[n].parent].dak \notin DOMAIN store}
        rank(i) == Cardinality({k \in S : k <= i})
    IN  [n \in 1..Cardinality(S) |->
            LET at == CHOOSE i \in S : rank(i) = n
            IN  <<doc[doc[at].parent].tag, doc[doc[at].parent].id, doc[doc[at].parent].dak,
                  doc[at].tag, doc[at].text>>]

\* the export skipped the keys without element, annotated the other keys and
\* left the title / desc children of the elements without a key of the
\* snapshot as they were
SkipsMissingKeys(markup, store, out) ==
    /\ \A key \in DOMAIN store :
            Carriers(markup, key) # {} => AnnotatedFor(out, key, store[key])
    /\ ForeignTitles(out, store) = ForeignTitles(markup, store)

\* the snapshot has a key that no element of the markup carries
HasMissingKey(markup, store) == \E key \in DOMAIN store : Carriers(markup, key) = {}

\* C16 (as stated): exporting with a snapshot that holds a key without element
\* skips that key, annotates every key that has an element and leaves the
\* title / desc children of the elements without a key of the snapshot untouched
C16_MissingKeySkipped ==
    expStage # "input" /\ HasSvgRoot(expIn.svg) /\ HasMissingKey(expIn.svg, expIn.annotations)
        => SkipsMissingKeys(expIn.svg, expIn.annotations, expOut1)

\* the same for the snapshots whose keys hold neither quote nor backslash
C16_PlainMissingKeySkipped ==
    (/\ expStage # "input" /\ HasSvgRoot(expIn.svg)
     /\ HasMissingKey(expIn.svg, expIn.annotations)
     /\ \A key \in DOMAIN expIn.annotations : AttrSelectorValid(key))
        => SkipsMissingKeys(expIn.svg, expIn.annotations, expOut1)

\* the metadata nodes of the exporter in a document
MetadataNodes(doc) ==
    {n \in DOMAIN doc : doc[n].tag = "metadata" /\ doc[n].id = MetadataId}

\* the element the export annotates for a key: the first with the id, else the
\* first with the data-annot-key; 0 for none
AnnotatedElement(doc, key) ==
    IF First({n \in DOMAIN doc : doc[n].id = key}) # 0
    THEN First({n \in DOMAIN doc : doc[n].id = key})
    ELSE First({n \in DOMAIN doc : doc[n].dak = key})

\* one metadata node, with the snapshot, and one title and one desc child
\* below every annotated element
OneOfEach(store, out) ==
    /\ Cardinality(MetadataNodes(out)) = 1
    /\ \A m \in MetadataNodes(out) : out[m].text = JsonSnapshot(store)
    /\ \A key \in DOMAIN store :
            AnnotatedElement(out, key) # 0 =>
                /\ Cardinality(ChildrenWithTag(out, AnnotatedElement(out, key), "title")) = 1
                /\ Cardinality(ChildrenWithTag(out, AnnotatedElement(out, key), "desc")) = 1

\* C17 (as stated): the output holds exactly one metadata node of the exporter,
\* carrying the snapshot, and exactly one title and one desc child for every
\* annotated element, also when the input has title / desc children or is a
\* previous output
C17_OneMetadataOneTitleOneDesc ==
    /\ expStage # "input" /\ HasSvgRoot(expIn.svg) => OneOfEach(expIn.annotations, expOut1)
    /\ expStage = "twice" /\ HasSvgRoot(expIn.svg) => OneOfEach(expIn.annotations, expOut2)

\* no element of the document has two title or two desc children, and the
\* document has at most one metadata node of the exporter
NoDuplicates(doc) ==
    /\ Cardinality(MetadataNodes(doc)) <= 1
    /\ \A n \in DOMAIN doc :
            /\ Cardinality(ChildrenWithTag(doc, n, "title")) <= 1
            /\ Cardinality(ChildrenWithTag(doc, n, "desc")) <= 1

\* the same for inputs without duplicates and keys without quote or backslash
C17_OneOfEachWithoutDuplicates ==
    (/\ HasSvgRoot(expIn.svg) /\ NoDuplicates(expIn.svg)
     /\ \A key \in DOMAIN expIn.annotations : AttrSelectorValid(key))
        => /\ expStage # "input" => OneOfEach(expIn.annotations, expOut1)
           /\ expStage = "twice" => OneOfEach(expIn.annotations, expOut2)

\* the second export of a document gives what the first gave
C17_ReexportStable ==
    (/\ expStage = "twice" /\ HasSvgRoot(expIn.svg) /\ NoDuplicates(expIn.svg)
     /\ \A key \in DOMAIN expIn.annotations : AttrSelectorValid(key))
        => expOut2 = expOut1

-----------------------------------------------------------------------------
(* Properties of buildHtmlPackage, checked under SpecPackage *)

\* C18: whatever the SVG text and the annotation content, the only closing
\* script tags of the HTML package are the two of the template: no "<" is left
\* in the embedded snapshot, and the embedded SVG literal holds no closing
\* script sequence in any letter case
C18_OnlyTemplateClosingScripts ==
    pkgStage = "built" =>
        /\ Cardinality(ClosingScripts(pkgOut)) = 2
        /\ \A i \in DOMAIN safeJson(pkgIn.annotations) : safeJson(pkgIn.annotations)[i] # "<"
        /\ ClosingScripts(svgJsString(escapeClosingScript(pkgIn.svg))) = {}

\* a package was built for an SVG text with a closing script tag in upper case
C18_Witness ==
    /\ pkgStage = "built"
    /\ \E i \in ClosingScripts(pkgIn.svg) : pkgIn.svg[i + 2] = "SCRIPT"
    /\ Cardinality(ClosingScripts(pkgOut)) = 2

\* the embedded script, as the browser receives it
EmbeddedScript == ScriptContent(pkgOut, "<script>")

\* C19 (as stated): the embedded script as emitted is a well-formed program
\* that reads the embedded snapshot and the embedded SVG
C19_EmittedScriptWellFormed ==
    pkgStage = "built" =>
        /\ LexesFrom(EmbeddedScript, 1, "")
        /\ LET raw == ScriptContent(pkgOut, "<script type=application/json id=annotationsJson>")
           IN  ParseSnapshot(raw).ok /\ ParseSnapshot(raw).val = pkgIn.annotations

\* the part of C19 about the embedded data: JSON.parse of the embedded
\* snapshot gives the store, and the SVG literal denotes the escaped SVG text
C19_EmbeddedDataReadable ==
    pkgStage = "built" =>
        /\ LET raw == ScriptContent(pkgOut, "<script type=application/json id=annotationsJson>")
           IN  ParseSnapshot(raw).ok /\ ParseSnapshot(raw).val = pkgIn.annotations
        /\ LET literal == svgJsString(escapeClosingScript(pkgIn.svg))
           IN  /\ ParseString(literal, 1).ok
               /\ ParseString(literal, 1).val = escapeClosingScript(pkgIn.svg)
               /\ ParseString(literal, 1).next = Len(literal) + 1

====
